---- MODULE Spec2Model ----
(***************************************************************************)
(* Model of the time-tracker store (src/store/useTimeTrackerStore.ts), its *)
(* date utilities (src/utils/dateUtils.ts) and the persistence it drives   *)
(* (src/services/StorageService.ts, src/services/MigrationService.ts).     *)
(*                                                                         *)
(* Instants are integers, milliseconds on the local wall clock.  Every     *)
(* async handler is a task: one action per stretch of code between two     *)
(* awaits, so the clock and the other tasks move while it is suspended.    *)
(* A storage write and the code that resumes after it are one step.        *)
(***************************************************************************)
EXTENDS Integers, Sequences, FiniteSets, Bags, TLC

VARIABLES
    now,              \* the wall clock, what new Date() returns
    currentActivity,  \* store.currentActivity (Null or an open Activity)
    buttons,          \* store.buttons
    activities,       \* store.activities
    settings,         \* store.settings
    isLoading,        \* store.isLoading
    error,            \* store.error
    timerState,       \* store.timerState
    stCurrent,        \* AsyncStorage @time_tracker/current_activity
    stActivities,     \* AsyncStorage @time_tracker/activities (flattened)
    stButtons,        \* AsyncStorage @time_tracker/buttons
    stSettings,       \* AsyncStorage @time_tracker/settings
    stVersion,        \* AsyncStorage @time_tracker/schema_version
    tasks,            \* the handler invocations in flight
    nextId,           \* the ids generateId() has handed out so far
    opsLeft,          \* store actions that may still be called
    ticksLeft,        \* clock changes that may still happen
    failsLeft,        \* storage calls that may still fail
    restartsLeft,     \* process restarts that may still happen
    splitIn,          \* argument of a direct splitActivityAtMidnight call
    splitOut,         \* its result
    retryDelays,      \* StorageService.retryDelays: key -> pending retry timer
    saves,            \* the saveWithRetry invocations and their timers
    timerService,     \* TimerService: interval, startTime, callbacks, lastUpdate
    scheduled,        \* the setInterval handles that have not been cleared
    lastCalls,        \* the last two calls made to the TimerService
    segments,         \* the last calculateSegments call and its result
    figmaSegments,    \* the segments FunctionalFigmaChart last computed
    timeAngle,        \* the last getCurrentTimeAngle call and its result
    clockAngle        \* the currentTimeAngle ClockChart last computed

storeVars   == <<currentActivity, buttons, activities, settings, isLoading, error, timerState>>
storageVars == <<stCurrent, stActivities, stButtons, stSettings, stVersion>>
splitVars   == <<splitIn, splitOut>>
boundVars   == <<opsLeft, ticksLeft, failsLeft, restartsLeft>>
retryVars   == <<retryDelays, saves>>
timerVars   == <<timerService, scheduled, lastCalls>>
chartVars   == <<segments, figmaSegments, timeAngle, clockAngle>>
serviceVars == <<retryVars, timerVars, chartVars>>
vars == <<now, storeVars, storageVars, tasks, nextId, boundVars, splitVars, serviceVars>>

(***************************************************************************)
(* Bounds of the model.                                                    *)
(***************************************************************************)
MaxTasks    == 2   \* handler invocations that may be in flight together
MaxOps      == 3   \* store actions called in one behaviour
MaxTicks    == 2   \* clock changes in one behaviour
MaxFails    == 1   \* failing storage calls in one behaviour
MaxRestarts == 1   \* process restarts in one behaviour
MaxSplitPeriods == 5   \* periods past its first that a directly split interval may reach

Tasks == 1..MaxTasks

(***************************************************************************)
(* Program constants.                                                      *)
(***************************************************************************)
DEV_MODE   == TRUE
MinuteMs   == 60000
DayMs      == 86400000
PeriodMs   == IF DEV_MODE THEN MinuteMs ELSE DayMs
StaleHours == 24
FallbackHours == 8
HourMs     == 3600000
MAX_ACTIVITY_AGE_DAYS == 365
CURRENT_SCHEMA_VERSION == 1

Null == [null |-> TRUE]

BlankId    == "blank"
BlankColor == "#EBEBEB"

(***************************************************************************)
(* dateUtils.ts                                                            *)
(***************************************************************************)
\* The period key of an instant: the index of its minute (DEV_MODE) or day.
\* format(date, 'yyyy-MM-dd HH:mm') names exactly that minute.
formatDateKey(t) == t \div PeriodMs

\* startOfMinute / endOfMinute (startOfDay / endOfDay): the last instant of
\* a period is its final millisecond, xx:59.999.
getDayBounds(t) ==
    [start |-> (t \div PeriodMs) * PeriodMs,
     end   |-> (t \div PeriodMs) * PeriodMs + PeriodMs - 1]

calculateDuration(start, end) == end - start

crossesMidnight(startTime, endTime) ==
    formatDateKey(startTime) # formatDateKey(endTime)

\* { ...activity, startTime, endTime, duration, date }
SplitPiece(activity, startTime, endTime) ==
    [id        |-> activity.id,
     buttonId  |-> activity.buttonId,
     startTime |-> startTime,
     endTime   |-> endTime,
     duration  |-> calculateDuration(startTime, endTime),
     color     |-> activity.color,
     date      |-> formatDateKey(startTime)]

\* A cursor that moves past the next period.
NextPieceStartSkips(currentEnd) == currentEnd + 1 + PeriodMs

\* currentStart = new Date(currentEnd.getTime() + 1)
NextPieceStart(currentEnd) == currentEnd + 1

\* The while loop and the final push, transcribed: one recursion per
\* iteration.
RECURSIVE SplitLoop(_, _, _)
SplitLoop(activity, currentStart, currentEnd) ==
    IF currentEnd < activity.endTime
    THEN LET nextStart  == NextPieceStart(currentEnd)
             nextBounds == getDayBounds(nextStart)
             nextEnd    == IF nextBounds.end < activity.endTime
                           THEN nextBounds.end ELSE activity.endTime
         IN  <<SplitPiece(activity, currentStart, currentEnd)>>
                 \o SplitLoop(activity, nextStart, nextEnd)
    ELSE <<SplitPiece(activity, currentStart, activity.endTime)>>

\* The same loop by iteration number, for intervals of hundreds of periods.
\* Iteration k = 0, 1, ... runs while currentEnd < endTime, and then
\* currentEnd is the last instant of the k-th period counted from
\* startTime's, and currentStart (k > 0) the instant after the previous
\* currentEnd.  SplitLoopAgrees states that the two agree.
LoopEnd(activity, k) == getDayBounds(activity.startTime).end + k * PeriodMs

LoopStart(activity, k) ==
    IF k = 0 THEN activity.startTime
    ELSE NextPieceStart(LoopEnd(activity, k - 1))

\* The number of iterations: the k >= 0 with LoopEnd(activity, k) < endTime.
LoopCount(activity) ==
    LET firstEnd == getDayBounds(activity.startTime).end
    IN  IF firstEnd < activity.endTime
        THEN ((activity.endTime - 1 - firstEnd) \div PeriodMs) + 1
        ELSE 0

SplitPieces(activity) ==
    LET n == LoopCount(activity)
    IN  [k \in 1..(n + 1) |->
            IF k <= n
            THEN SplitPiece(activity, LoopStart(activity, k - 1), LoopEnd(activity, k - 1))
            ELSE SplitPiece(activity, LoopStart(activity, n), activity.endTime)]

splitActivityAtMidnight(activity) ==
    IF ~crossesMidnight(activity.startTime, activity.endTime)
    THEN <<SplitPiece(activity, activity.startTime, activity.endTime)>>
    ELSE SplitPieces(activity)

(***************************************************************************)
(* StorageService.ts                                                       *)
(***************************************************************************)
\* The calendar day a period key lies in, and the day of an instant.
DayOfKey(date) == (date * PeriodMs) \div DayMs
DayOf(t) == t \div DayMs

\* saveActivities groups the list by date; loadActivities flattens the
\* groups in the order the dates were first met.
\* The place at which the date of each entry was first met.
FirstMet(list) ==
    [i \in 1..Len(list) |->
        LET same == {j \in 1..i : list[j].date = list[i].date}
        IN  CHOOSE j \in same : \A l \in same : j <= l]

\* The place of each entry in the flattened groups.
GroupPlace(list, first) ==
    [i \in 1..Len(list) |->
        Cardinality({j \in 1..Len(list) : \/ first[j] < first[i]
                                          \/ first[j] = first[i] /\ j <= i})]

\* Dates that never decrease along the list are grouped already.
DatesAscend(list) ==
    \A i \in 1..(Len(list) - 1) : list[i].date <= list[i + 1].date

GroupByDate(list) ==
    IF DatesAscend(list) THEN list
    ELSE CHOOSE out \in
        { [r \in 1..Len(list) |-> list[CHOOSE i \in 1..Len(list) : place[i] = r]] :
            place \in { GroupPlace(list, first) : first \in {FirstMet(list)} } } : TRUE

\* What loadActivities() returns once saveActivities(list) has succeeded on
\* the calendar day today: groups whose date is before the cutoff day are
\* deleted.
StoredOn(list, today) ==
    LET cutoffDay == today - MAX_ACTIVITY_AGE_DAYS
    IN  GroupByDate(SelectSeq(list, LAMBDA a : ~(DayOfKey(a.date) < cutoffDay)))

\* The same for a save at instant t.
StoredActivities(list, t) == StoredOn(list, DayOf(t))

DefaultSettings == [gridColumns |-> 3, hapticEnabled |-> TRUE, theme |-> "auto"]

(***************************************************************************)
(* defaultButtons.ts: getStarterButtons().  A button is known by its id;   *)
(* the uuid of a starter button is written as its lower-case name.         *)
(***************************************************************************)
Button(id, color, isVisible) == [id |-> id, color |-> color, isVisible |-> isVisible]

StarterButtons ==
    << Button("sleeping", "#9E9E9E", TRUE),
       Button("studying", "#FF5722", TRUE),
       Button("cycling",  "#00BCD4", TRUE),
       Button("eating",   "#CDDC39", TRUE) >>

\* loadData's first-launch catalog: starters 1..3 visible, then starter 0 hidden.
FirstLaunchButtons ==
    << [StarterButtons[2] EXCEPT !.isVisible = TRUE],
       [StarterButtons[3] EXCEPT !.isVisible = TRUE],
       [StarterButtons[4] EXCEPT !.isVisible = TRUE],
       [StarterButtons[1] EXCEPT !.isVisible = FALSE] >>

\* state.buttons.find(b => b.id === buttonId)
FindButton(bs, buttonId) ==
    IF \E i \in 1..Len(bs) : bs[i].id = buttonId
    THEN bs[CHOOSE i \in 1..Len(bs) :
                /\ bs[i].id = buttonId
                /\ \A j \in 1..(i - 1) : bs[j].id # buttonId]
    ELSE Null

(***************************************************************************)
(* Tasks.  pc names the await a handler invocation is suspended at; stack  *)
(* holds the continuations of the handlers that await it.                  *)
(***************************************************************************)
IdleTask ==
    [pc       |-> "idle",
     stack    |-> <<>>,
     buttonId |-> "",        \* startActivity: button.id
     color    |-> "",        \* startActivity: button.color
     act      |-> Null,      \* the activity handed to saveCurrentActivity
     saveArg  |-> <<>>,      \* the list handed to saveActivities / saveButtons
     data     |-> Null]      \* loadData: its locals

AllIdle == \A t \in Tasks : tasks[t].pc = "idle"

\* A handler returns: its awaiting caller resumes, or the invocation ends.
Return(tk) ==
    IF tk.stack = <<>> THEN IdleTask
    ELSE [IdleTask EXCEPT !.pc = Head(tk.stack), !.stack = Tail(tk.stack),
                          !.buttonId = tk.buttonId, !.color = tk.color]

\* An Activity without endTime and duration: an open interval.
OpenActivity(id, buttonId, startTime, color) ==
    [id |-> id, buttonId |-> buttonId, startTime |-> startTime,
     color |-> color, date |-> formatDateKey(startTime)]

\* { ...activity, endTime, duration }
Completed(activity, endTime) ==
    [id        |-> activity.id,
     buttonId  |-> activity.buttonId,
     startTime |-> activity.startTime,
     endTime   |-> endTime,
     duration  |-> calculateDuration(activity.startTime, endTime),
     color     |-> activity.color,
     date      |-> activity.date]

IsOpen(a) == a # Null /\ "endTime" \notin DOMAIN a

(***************************************************************************)
(* The state after construction: a fresh install, nothing persisted.       *)
(***************************************************************************)
\* The app is first launched in the middle of a period.
StartInstant == PeriodMs + PeriodMs \div 2

\* The services outside the store, as constructed: no retry pending, no save
\* called, the timer stopped, no chart computed.
ServiceIdle ==
    /\ retryDelays = Null
    /\ saves = <<>>
    /\ timerService = [interval |-> Null, startTime |-> Null, callbacks |-> {},
                       lastUpdate |-> 0]
    /\ scheduled = {}
    /\ lastCalls = <<>>
    /\ segments = Null
    /\ figmaSegments = Null
    /\ timeAngle = Null
    /\ clockAngle = Null

InitStore ==
    /\ currentActivity = Null
    /\ buttons = <<>>
    /\ activities = <<>>
    /\ settings = DefaultSettings
    /\ isLoading = TRUE
    /\ error = Null
    /\ timerState = Null

Init ==
    /\ now = StartInstant
    /\ InitStore
    /\ stCurrent = Null
    /\ stActivities = <<>>
    /\ stButtons = <<>>
    /\ stSettings = Null
    /\ stVersion = 0
    /\ tasks = [t \in Tasks |-> IdleTask]
    /\ nextId = 1
    /\ opsLeft = MaxOps
    /\ ticksLeft = MaxTicks
    /\ failsLeft = MaxFails
    /\ restartsLeft = MaxRestarts
    /\ splitIn = Null
    /\ ServiceIdle
    /\ splitOut = <<>>

(***************************************************************************)
(* Inputs.                                                                 *)
(***************************************************************************)
\* Button ids the UI or a caller may pass: two catalog entries and an id
\* that no catalog entry has.
ButtonArgs == {"studying", "cycling", "unknown"}
\* Buttons the user may delete.
DeleteArgs == {"studying"}
\* Clock changes between two steps: the clock runs on, or is set back.
ForwardSteps  == {1, 30000}
BackwardSteps == {45000}

\* The task a new invocation runs as: the first one not in use.
FreeTask(t) ==
    /\ tasks[t].pc = "idle"
    /\ \A u \in Tasks : u < t => tasks[u].pc # "idle"

\* A rejected promise nobody catches: the invocation is over.
Throw(t) == tasks' = [tasks EXCEPT ![t] = IdleTask]

UseFail == failsLeft > 0 /\ failsLeft' = failsLeft - 1
NoFail  == failsLeft' = failsLeft

(***************************************************************************)
(* stopCurrentActivity                                                     *)
(***************************************************************************)
\* The blank activity that stopCurrentActivity opens.
BlankActivity(endTime, id) == OpenActivity(id, BlankId, endTime, BlankColor)

\* A stop that would close the open interval one millisecond after the call.
StopEndTimeLate == now + 1

\* The instant stopCurrentActivity closes the open interval at.
StopEndTime == now

\* From the call to the first await.  tk: the invocation's record, with the
\* continuations of its callers.
StopEntry(t, tk) ==
    IF currentActivity = Null
    THEN /\ tasks' = [tasks EXCEPT ![t] = Return(tk)]
         /\ UNCHANGED <<currentActivity, activities, timerState, nextId>>
    ELSE LET endTime           == StopEndTime
             completedActivity == Completed(currentActivity, endTime)
             splitActivities   == splitActivityAtMidnight(completedActivity)
             blankActivity     == BlankActivity(endTime, nextId)
         IN  /\ currentActivity' = blankActivity
             /\ timerState' = [startTime |-> endTime, currentDuration |-> 0]
             /\ activities' = activities \o splitActivities
             /\ nextId' = nextId + 1
             /\ tasks' = [tasks EXCEPT ![t] =
                    [tk EXCEPT !.pc = IF settings.hapticEnabled
                                      THEN "stop_haptic" ELSE "stop_saveCur",
                               !.act = blankActivity,
                               !.saveArg = activities \o splitActivities]]

CallStop(t) ==
    /\ FreeTask(t)
    /\ opsLeft > 0
    /\ opsLeft' = opsLeft - 1
    /\ StopEntry(t, IdleTask)
    /\ UNCHANGED <<now, buttons, settings, isLoading, error, storageVars,
                   ticksLeft, failsLeft, restartsLeft, splitVars, serviceVars>>

\* await triggerHaptic(...) is over.
StopHaptic(t) ==
    /\ tasks[t].pc = "stop_haptic"
    /\ tasks' = [tasks EXCEPT ![t].pc = "stop_saveCur"]
    /\ UNCHANGED <<now, storeVars, storageVars, nextId, boundVars, splitVars, serviceVars>>

\* await storage.saveCurrentActivity(blankActivity)
StopSaveCur(t) ==
    /\ tasks[t].pc = "stop_saveCur"
    /\ \/ /\ stCurrent' = tasks[t].act
          /\ tasks' = [tasks EXCEPT ![t].pc = "stop_saveActs"]
          /\ NoFail
       \/ /\ UseFail
          /\ Throw(t)
          /\ UNCHANGED stCurrent
    /\ UNCHANGED <<now, storeVars, stActivities, stButtons, stSettings, stVersion,
                   nextId, opsLeft, ticksLeft, restartsLeft, splitVars, serviceVars>>

\* await storage.saveActivities([...state.activities, ...splitActivities])
StopSaveActs(t) ==
    /\ tasks[t].pc = "stop_saveActs"
    /\ \/ /\ stActivities' = StoredActivities(tasks[t].saveArg, now)
          /\ tasks' = [tasks EXCEPT ![t] = Return(tasks[t])]
          /\ NoFail
       \/ /\ UseFail
          /\ Throw(t)
          /\ UNCHANGED stActivities
    /\ UNCHANGED <<now, storeVars, stCurrent, stButtons, stSettings, stVersion,
                   nextId, opsLeft, ticksLeft, restartsLeft, splitVars, serviceVars>>

(***************************************************************************)
(* startActivity                                                           *)
(***************************************************************************)
\* The instant the new activity starts at.
StartTime == now

\* "Start new activity" up to the next await.
StartNew(t, tk) ==
    LET startTime   == StartTime
        newActivity == OpenActivity(nextId, tk.buttonId, startTime, tk.color)
    IN  /\ currentActivity' = newActivity
        /\ timerState' = [startTime |-> startTime, currentDuration |-> 0]
        /\ nextId' = nextId + 1
        /\ tasks' = [tasks EXCEPT ![t] =
               [tk EXCEPT !.pc = IF settings.hapticEnabled
                                 THEN "start_haptic" ELSE "start_saveCur",
                          !.act = newActivity,
                          !.saveArg = <<>>]]

\* The catalog entry startActivity accepts for buttonId, or Null.
StartButton(buttonId) == FindButton(buttons, buttonId)

\* From the call to the first await.
StartEntry(t, tk, buttonId) ==
    LET button == StartButton(buttonId)
    IN  IF button = Null
        THEN /\ tasks' = [tasks EXCEPT ![t] = Return(tk)]
             /\ UNCHANGED <<currentActivity, activities, timerState, nextId>>
        ELSE LET tb == [tk EXCEPT !.buttonId = button.id, !.color = button.color]
             IN  IF currentActivity # Null
                 THEN IF currentActivity.buttonId = BlankId
                      THEN LET endTime         == now
                               completedBlank  == Completed(currentActivity, endTime)
                               splitActivities == splitActivityAtMidnight(completedBlank)
                           IN  /\ activities' = activities \o splitActivities
                               /\ tasks' = [tasks EXCEPT ![t] =
                                      [tb EXCEPT !.pc = "start_saveActs",
                                                 !.saveArg = activities \o splitActivities]]
                               /\ UNCHANGED <<currentActivity, timerState, nextId>>
                      ELSE StopEntry(t, [tb EXCEPT !.stack = <<"start_afterStop">> \o tb.stack])
                 ELSE /\ StartNew(t, tb)
                      /\ UNCHANGED activities

CallStart(t, buttonId) ==
    /\ FreeTask(t)
    /\ opsLeft > 0
    /\ opsLeft' = opsLeft - 1
    /\ StartEntry(t, IdleTask, buttonId)
    /\ UNCHANGED <<now, buttons, settings, isLoading, error, storageVars,
                   ticksLeft, failsLeft, restartsLeft, splitVars, serviceVars>>

\* After await get().stopCurrentActivity(): close the blank it opened.
StartAfterStop(t) ==
    /\ tasks[t].pc = "start_afterStop"
    /\ LET tk            == tasks[t]
           blankActivity == currentActivity
       IN  IF blankActivity # Null /\ blankActivity.buttonId = BlankId
           THEN LET endTime  == now
                    duration == calculateDuration(blankActivity.startTime, endTime)
                    splitActivities ==
                        splitActivityAtMidnight(Completed(blankActivity, endTime))
                IN  IF duration > 0
                    THEN /\ activities' = activities \o splitActivities
                         /\ tasks' = [tasks EXCEPT ![t] =
                                [tk EXCEPT !.pc = "start_saveActs",
                                           !.saveArg = activities \o splitActivities]]
                         /\ UNCHANGED <<currentActivity, timerState, nextId>>
                    ELSE /\ StartNew(t, tk)
                         /\ UNCHANGED activities
           ELSE /\ StartNew(t, tk)
                /\ UNCHANGED activities
    /\ UNCHANGED <<now, buttons, settings, isLoading, error, storageVars,
                   boundVars, splitVars, serviceVars>>

\* await saveActivities(...) of the closed blank, then "Start new activity".
StartSaveActs(t) ==
    /\ tasks[t].pc = "start_saveActs"
    /\ \/ /\ stActivities' = StoredActivities(tasks[t].saveArg, now)
          /\ StartNew(t, tasks[t])
          /\ NoFail
       \/ /\ UseFail
          /\ Throw(t)
          /\ UNCHANGED <<stActivities, currentActivity, timerState, nextId>>
    /\ UNCHANGED <<now, buttons, activities, settings, isLoading, error,
                   stCurrent, stButtons, stSettings, stVersion,
                   opsLeft, ticksLeft, restartsLeft, splitVars, serviceVars>>

StartHaptic(t) ==
    /\ tasks[t].pc = "start_haptic"
    /\ tasks' = [tasks EXCEPT ![t].pc = "start_saveCur"]
    /\ UNCHANGED <<now, storeVars, storageVars, nextId, boundVars, splitVars, serviceVars>>

\* await storage.saveCurrentActivity(newActivity)
StartSaveCur(t) ==
    /\ tasks[t].pc = "start_saveCur"
    /\ \/ /\ stCurrent' = tasks[t].act
          /\ tasks' = [tasks EXCEPT ![t] = Return(tasks[t])]
          /\ NoFail
       \/ /\ UseFail
          /\ Throw(t)
          /\ UNCHANGED stCurrent
    /\ UNCHANGED <<now, storeVars, stActivities, stButtons, stSettings, stVersion,
                   nextId, opsLeft, ticksLeft, restartsLeft, splitVars, serviceVars>>

(***************************************************************************)
(* switchActivity                                                          *)
(***************************************************************************)
\* TRUE when switchActivity(buttonId) takes its "same activity" branch.
SwitchStops(buttonId) ==
    currentActivity # Null /\ currentActivity.buttonId = buttonId

CallSwitch(t, buttonId) ==
    /\ FreeTask(t)
    /\ opsLeft > 0
    /\ opsLeft' = opsLeft - 1
    /\ LET tk == [IdleTask EXCEPT !.stack = <<"switch_after">>]
       IN  IF SwitchStops(buttonId)
           THEN StopEntry(t, tk)
           ELSE StartEntry(t, tk, buttonId)
    /\ UNCHANGED <<now, buttons, settings, isLoading, error, storageVars,
                   ticksLeft, failsLeft, restartsLeft, splitVars, serviceVars>>

\* After the awaited stop or start: "Trigger haptic for switch".
SwitchAfter(t) ==
    /\ tasks[t].pc = "switch_after"
    /\ tasks' = [tasks EXCEPT ![t] =
           IF settings.hapticEnabled
           THEN [IdleTask EXCEPT !.pc = "switch_haptic"]
           ELSE IdleTask]
    /\ UNCHANGED <<now, storeVars, storageVars, nextId, boundVars, splitVars, serviceVars>>

SwitchHaptic(t) ==
    /\ tasks[t].pc = "switch_haptic"
    /\ tasks' = [tasks EXCEPT ![t] = IdleTask]
    /\ UNCHANGED <<now, storeVars, storageVars, nextId, boundVars, splitVars, serviceVars>>

(***************************************************************************)
(* loadData                                                                *)
(***************************************************************************)
StaleMs    == StaleHours * HourMs
FallbackMs == FallbackHours * HourMs

\* store.error is null or a message.
ErrorMessage(text) == [message |-> text]

\* catch (error) { set({ error: 'Failed to load data', isLoading: false }) }
LoadCatch(t) ==
    /\ error' = ErrorMessage("Failed to load data")
    /\ isLoading' = FALSE
    /\ tasks' = [tasks EXCEPT ![t] = IdleTask]
    /\ UNCHANGED <<currentActivity, buttons, activities, settings, timerState, nextId>>

\* The final set({...}) of the try block.
LoadSet(t, d) ==
    /\ currentActivity' = d.currentActivity
    /\ buttons' = d.buttons
    /\ activities' = d.activities
    /\ settings' = d.settings
    /\ timerState' = d.timerState
    /\ isLoading' = FALSE
    /\ tasks' = [tasks EXCEPT ![t] = IdleTask]
    /\ UNCHANGED error

LoadSuspend(t, pc, d) ==
    /\ tasks' = [tasks EXCEPT ![t] = [IdleTask EXCEPT !.pc = pc, !.data = d]]
    /\ UNCHANGED storeVars

\* "If no activity is recovered, start blank activity", to the next await.
LoadBlank(t, d) ==
    IF d.currentActivity = Null
    THEN LET blankActivity == BlankActivity(now, nextId)
         IN  /\ nextId' = nextId + 1
             /\ LoadSuspend(t, "load_saveBlank",
                    [d EXCEPT !.currentActivity = blankActivity,
                              !.timerState = [startTime |-> now, currentDuration |-> 0]])
    ELSE /\ LoadSet(t, d)
         /\ UNCHANGED nextId

\* "Check for first launch and initialize with starter buttons".
LoadButtons(t, d) ==
    IF d.buttons = <<>>
    THEN /\ LoadSuspend(t, "load_saveButtons", [d EXCEPT !.buttons = FirstLaunchButtons])
         /\ UNCHANGED nextId
    ELSE LoadBlank(t, d)

\* A stored value that is not JSON: JSON.parse throws on every attempt.
Unparseable == [unparseable |-> TRUE]

\* A loadWithRetry that gives up on every key and returns the default.
LoadWithRetryDefault(stored, defaultValue, readFails) == defaultValue

\* What loadWithRetry returns for a key: the default when the read fails
\* on every attempt, else the parsed value.
LoadWithRetry(stored, defaultValue, readFails) ==
    IF readFails THEN defaultValue ELSE stored

\* A loadCurrentActivity that never finds the persisted open record.
LoadCurrentActivityLost(readFails) == Null

\* loadCurrentActivity: a record that cannot be parsed fails on every attempt.
LoadCurrentActivity(readFails) ==
    LoadWithRetry(stCurrent, Null, readFails \/ stCurrent = Unparseable)

\* new Date(parsed.startTime) is a valid date.
ValidStart(a) == "startTime" \in DOMAIN a

\* "Resume current activity if exists (crash recovery)", to the next await.
\* With an invalid startTime, hoursSinceStart is NaN, NaN > 24 is false and
\* formatDateKey(startTime) throws RangeError: the catch block runs.
LoadRecover(t, d) ==
    LET recovered == d.currentActivity
    IN  IF recovered = Null
        THEN LoadButtons(t, d)
        ELSE IF ~ValidStart(recovered)
        THEN LoadCatch(t)
        ELSE LET startTime == recovered.startTime
             IN  IF now - startTime > StaleMs
                 THEN LET endTime == startTime + FallbackMs
                          closed  == [Completed(recovered, endTime) EXCEPT
                                         !.duration = FallbackHours * 60 * 60]
                      IN  /\ LoadSuspend(t, "load_stale_saveActs",
                                 [d EXCEPT !.activities =
                                      d.activities \o splitActivityAtMidnight(closed)])
                          /\ UNCHANGED nextId
                 ELSE IF formatDateKey(startTime) # formatDateKey(now)
                 THEN LET intervalStart == getDayBounds(now).start
                          previousIntervalActivity == Completed(recovered, intervalStart)
                      IN  /\ LoadSuspend(t, "load_roll_saveActs",
                                 [d EXCEPT !.activities = d.activities \o
                                      splitActivityAtMidnight(previousIntervalActivity),
                                           !.intervalStart = intervalStart,
                                           !.loadNow = now])
                          /\ UNCHANGED nextId
                 ELSE LoadButtons(t, [d EXCEPT !.timerState =
                          [startTime |-> startTime,
                           currentDuration |-> calculateDuration(startTime, now)]])

CallLoad(t) ==
    /\ FreeTask(t)
    /\ opsLeft > 0
    /\ opsLeft' = opsLeft - 1
    /\ isLoading' = TRUE
    /\ error' = Null
    /\ tasks' = [tasks EXCEPT ![t] = [IdleTask EXCEPT !.pc = "load_migrate"]]
    /\ UNCHANGED <<now, currentActivity, buttons, activities, settings, timerState,
                   storageVars, nextId, ticksLeft, failsLeft, restartsLeft, splitVars, serviceVars>>

\* await migrationService.migrate(): a fresh install gets the starter
\* buttons, the default settings and schema version 1.
LoadMigrate(t) ==
    /\ tasks[t].pc = "load_migrate"
    /\ LET buttonsToCreate == IF stButtons = <<>> THEN StarterButtons ELSE stButtons
       IN  \/ /\ stVersion >= CURRENT_SCHEMA_VERSION
              /\ tasks' = [tasks EXCEPT ![t].pc = "load_read"]
              /\ UNCHANGED <<storeVars, stButtons, stSettings, stVersion, nextId, failsLeft>>
           \/ /\ stVersion < CURRENT_SCHEMA_VERSION
              /\ stButtons' = buttonsToCreate
              /\ stSettings' = IF stSettings = Null THEN DefaultSettings ELSE stSettings
              /\ stVersion' = CURRENT_SCHEMA_VERSION
              /\ tasks' = [tasks EXCEPT ![t].pc = "load_read"]
              /\ UNCHANGED <<storeVars, nextId, failsLeft>>
           \/ /\ stVersion < CURRENT_SCHEMA_VERSION
              /\ UseFail
              /\ stButtons' \in {stButtons, buttonsToCreate}
              /\ LoadCatch(t)
              /\ UNCHANGED <<stSettings, stVersion>>
    /\ UNCHANGED <<now, stCurrent, stActivities, opsLeft, ticksLeft, restartsLeft, splitVars, serviceVars>>

\* await storage.loadAllData(): a key that cannot be read yields its default.
LoadRead(t) ==
    /\ tasks[t].pc = "load_read"
    /\ \E unread \in SUBSET {"current", "buttons", "activities"} :
          /\ Cardinality(unread) <= failsLeft
          /\ failsLeft' = failsLeft - Cardinality(unread)
          /\ LoadRecover(t,
                 [currentActivity |-> LoadCurrentActivity("current" \in unread),
                  buttons         |-> LoadWithRetry(stButtons, <<>>, "buttons" \in unread),
                  activities      |-> LoadWithRetry(stActivities, <<>>, "activities" \in unread),
                  settings        |-> IF stSettings = Null THEN DefaultSettings ELSE stSettings,
                  timerState      |-> Null,
                  intervalStart   |-> 0,
                  loadNow         |-> now])
    /\ UNCHANGED <<now, storageVars, opsLeft, ticksLeft, restartsLeft, splitVars, serviceVars>>

\* await storage.saveActivities(data.activities) of the stale branch.
LoadStaleSaveActs(t) ==
    /\ tasks[t].pc = "load_stale_saveActs"
    /\ \/ /\ stActivities' = StoredActivities(tasks[t].data.activities, now)
          /\ LoadSuspend(t, "load_stale_clearCur",
                 [tasks[t].data EXCEPT !.currentActivity = Null])
          /\ UNCHANGED nextId
          /\ NoFail
       \/ /\ UseFail
          /\ LoadCatch(t)
          /\ UNCHANGED stActivities
    /\ UNCHANGED <<now, stCurrent, stButtons, stSettings, stVersion,
                   opsLeft, ticksLeft, restartsLeft, splitVars, serviceVars>>

\* await storage.saveCurrentActivity(null) of the stale branch.
LoadStaleClearCur(t) ==
    /\ tasks[t].pc = "load_stale_clearCur"
    /\ \/ /\ stCurrent' = Null
          /\ LoadButtons(t, tasks[t].data)
          /\ NoFail
       \/ /\ UseFail
          /\ LoadCatch(t)
          /\ UNCHANGED stCurrent
    /\ UNCHANGED <<now, stActivities, stButtons, stSettings, stVersion,
                   opsLeft, ticksLeft, restartsLeft, splitVars, serviceVars>>

\* await storage.saveActivities(data.activities) of the boundary branch.
LoadRollSaveActs(t) ==
    /\ tasks[t].pc = "load_roll_saveActs"
    /\ \/ LET d == tasks[t].data
          IN  /\ stActivities' = StoredActivities(d.activities, now)
              /\ LoadSuspend(t, "load_roll_saveCur",
                     [d EXCEPT !.currentActivity =
                          [d.currentActivity EXCEPT
                               !.startTime = d.intervalStart,
                               !.date = formatDateKey(d.loadNow)]])
              /\ UNCHANGED nextId
              /\ NoFail
       \/ /\ UseFail
          /\ LoadCatch(t)
          /\ UNCHANGED stActivities
    /\ UNCHANGED <<now, stCurrent, stButtons, stSettings, stVersion,
                   opsLeft, ticksLeft, restartsLeft, splitVars, serviceVars>>

\* await storage.saveCurrentActivity(recoveredActivity) of the boundary branch.
LoadRollSaveCur(t) ==
    /\ tasks[t].pc = "load_roll_saveCur"
    /\ \/ LET d == tasks[t].data
          IN  /\ stCurrent' = d.currentActivity
              /\ LoadButtons(t, [d EXCEPT !.timerState =
                     [startTime |-> d.intervalStart,
                      currentDuration |-> calculateDuration(d.intervalStart, d.loadNow)]])
              /\ NoFail
       \/ /\ UseFail
          /\ LoadCatch(t)
          /\ UNCHANGED stCurrent
    /\ UNCHANGED <<now, stActivities, stButtons, stSettings, stVersion,
                   opsLeft, ticksLeft, restartsLeft, splitVars, serviceVars>>

\* await StorageService.getInstance().saveButtons(finalButtons)
LoadSaveButtons(t) ==
    /\ tasks[t].pc = "load_saveButtons"
    /\ \/ /\ stButtons' = tasks[t].data.buttons
          /\ LoadBlank(t, tasks[t].data)
          /\ NoFail
       \/ /\ UseFail
          /\ LoadCatch(t)
          /\ UNCHANGED stButtons
    /\ UNCHANGED <<now, stCurrent, stActivities, stSettings, stVersion,
                   opsLeft, ticksLeft, restartsLeft, splitVars, serviceVars>>

\* loadData without its saveCurrentActivity(blankActivity): the blank
\* interval is opened in memory only.
LoadSaveBlankUnsaved(t) ==
    /\ tasks[t].pc = "load_saveBlank"
    /\ LoadSet(t, tasks[t].data)
    /\ NoFail
    /\ UNCHANGED <<now, storageVars, nextId, opsLeft, ticksLeft, restartsLeft, splitVars, serviceVars>>

\* await storage.saveCurrentActivity(blankActivity), then the final set.
LoadSaveBlank(t) ==
    /\ tasks[t].pc = "load_saveBlank"
    /\ \/ /\ stCurrent' = tasks[t].data.currentActivity
          /\ LoadSet(t, tasks[t].data)
          /\ NoFail
       \/ /\ UseFail
          /\ LoadCatch(t)
          /\ UNCHANGED stCurrent
    /\ UNCHANGED <<now, stActivities, stButtons, stSettings, stVersion, nextId,
                   opsLeft, ticksLeft, restartsLeft, splitVars, serviceVars>>

(***************************************************************************)
(* clearAllData                                                            *)
(***************************************************************************)
CallClear(t) ==
    /\ FreeTask(t)
    /\ opsLeft > 0
    /\ opsLeft' = opsLeft - 1
    /\ tasks' = [tasks EXCEPT ![t] = [IdleTask EXCEPT !.pc = "clear_remove"]]
    /\ UNCHANGED <<now, storeVars, storageVars, nextId,
                   ticksLeft, failsLeft, restartsLeft, splitVars, serviceVars>>

\* await storage.clearAllData(), then the set.
ClearRemove(t) ==
    /\ tasks[t].pc = "clear_remove"
    /\ \/ /\ stCurrent' = Null
          /\ stActivities' = <<>>
          /\ stButtons' = <<>>
          /\ stSettings' = Null
          /\ stVersion' = 0
          /\ currentActivity' = Null
          /\ buttons' = <<>>
          /\ activities' = <<>>
          /\ timerState' = Null
          /\ tasks' = [tasks EXCEPT ![t] = IdleTask]
          /\ NoFail
       \/ /\ UseFail
          /\ Throw(t)
          /\ UNCHANGED <<storageVars, currentActivity, buttons, activities, timerState>>
    /\ UNCHANGED <<now, settings, isLoading, error, nextId,
                   opsLeft, ticksLeft, restartsLeft, splitVars, serviceVars>>

(***************************************************************************)
(* deleteButton                                                            *)
(***************************************************************************)
\* state.buttons.map(button => button.id === id ? {...button, isVisible: false} : button)
HideButton(bs, id) ==
    [i \in 1..Len(bs) |-> IF bs[i].id = id THEN [bs[i] EXCEPT !.isVisible = FALSE] ELSE bs[i]]

CallDelete(t, id) ==
    /\ FreeTask(t)
    /\ opsLeft > 0
    /\ opsLeft' = opsLeft - 1
    /\ buttons' = HideButton(buttons, id)
    /\ tasks' = [tasks EXCEPT ![t] =
           [IdleTask EXCEPT !.pc = IF settings.hapticEnabled
                                   THEN "delete_haptic" ELSE "delete_save",
                            !.saveArg = HideButton(buttons, id)]]
    /\ UNCHANGED <<now, currentActivity, activities, settings, isLoading, error,
                   timerState, storageVars, nextId,
                   ticksLeft, failsLeft, restartsLeft, splitVars, serviceVars>>

DeleteHaptic(t) ==
    /\ tasks[t].pc = "delete_haptic"
    /\ tasks' = [tasks EXCEPT ![t].pc = "delete_save"]
    /\ UNCHANGED <<now, storeVars, storageVars, nextId, boundVars, splitVars, serviceVars>>

\* await storage.saveButtons(updatedButtons)
DeleteSave(t) ==
    /\ tasks[t].pc = "delete_save"
    /\ \/ /\ stButtons' = tasks[t].saveArg
          /\ NoFail
       \/ /\ UseFail
          /\ UNCHANGED stButtons
    /\ tasks' = [tasks EXCEPT ![t] = IdleTask]
    /\ UNCHANGED <<now, storeVars, stCurrent, stActivities, stSettings, stVersion,
                   nextId, opsLeft, ticksLeft, restartsLeft, splitVars, serviceVars>>

(***************************************************************************)
(* The environment: the wall clock and the process.                        *)
(***************************************************************************)
\* Time passes between two steps.
Tick(d) ==
    /\ ticksLeft > 0
    /\ ticksLeft' = ticksLeft - 1
    /\ now' = now + d
    /\ UNCHANGED <<storeVars, storageVars, tasks, nextId,
                   opsLeft, failsLeft, restartsLeft, splitVars, serviceVars>>

\* The device clock is set back.
TickBack(d) ==
    /\ ticksLeft > 0
    /\ now - d >= 0
    /\ ticksLeft' = ticksLeft - 1
    /\ now' = now - d
    /\ UNCHANGED <<storeVars, storageVars, tasks, nextId,
                   opsLeft, failsLeft, restartsLeft, splitVars, serviceVars>>

\* The process is killed and launched again: memory is lost, storage stays.
Restart ==
    /\ restartsLeft > 0
    /\ ~(AllIdle /\ isLoading /\ currentActivity = Null)
    /\ restartsLeft' = restartsLeft - 1
    /\ currentActivity' = Null
    /\ buttons' = <<>>
    /\ activities' = <<>>
    /\ settings' = DefaultSettings
    /\ isLoading' = TRUE
    /\ error' = Null
    /\ timerState' = Null
    /\ tasks' = [t \in Tasks |-> IdleTask]
    /\ UNCHANGED <<now, storageVars, nextId, opsLeft, ticksLeft, failsLeft, splitVars, serviceVars>>

\* More than the staleness threshold passes while the process is down.  The
\* exploration follows this branch from an installation without history and
\* through the one launch that comes after it.
LongAbsence ==
    /\ ticksLeft > 0
    /\ opsLeft > 0
    /\ AllIdle /\ isLoading /\ currentActivity = Null
    /\ stCurrent # Null
    /\ stActivities = <<>>
    /\ ticksLeft' = 0
    /\ opsLeft' = 1
    /\ now' = now + StaleMs + 1
    /\ UNCHANGED <<storeVars, storageVars, tasks, nextId,
                   failsLeft, restartsLeft, splitVars, serviceVars>>

(***************************************************************************)
(* The program: handlers may overlap, storage may fail, the clock may be   *)
(* set back, the process may restart.                                      *)
(***************************************************************************)
Next ==
    \/ \E t \in Tasks : CallLoad(t)
    \/ \E t \in Tasks : LoadMigrate(t)
    \/ \E t \in Tasks : LoadRead(t)
    \/ \E t \in Tasks : LoadStaleSaveActs(t)
    \/ \E t \in Tasks : LoadStaleClearCur(t)
    \/ \E t \in Tasks : LoadRollSaveActs(t)
    \/ \E t \in Tasks : LoadRollSaveCur(t)
    \/ \E t \in Tasks : LoadSaveButtons(t)
    \/ \E t \in Tasks : LoadSaveBlank(t)
    \/ \E t \in Tasks, b \in ButtonArgs : CallStart(t, b)
    \/ \E t \in Tasks : StartAfterStop(t)
    \/ \E t \in Tasks : StartSaveActs(t)
    \/ \E t \in Tasks : StartHaptic(t)
    \/ \E t \in Tasks : StartSaveCur(t)
    \/ \E t \in Tasks : CallStop(t)
    \/ \E t \in Tasks : StopHaptic(t)
    \/ \E t \in Tasks : StopSaveCur(t)
    \/ \E t \in Tasks : StopSaveActs(t)
    \/ \E t \in Tasks, b \in ButtonArgs : CallSwitch(t, b)
    \/ \E t \in Tasks : SwitchAfter(t)
    \/ \E t \in Tasks : SwitchHaptic(t)
    \/ \E t \in Tasks : CallClear(t)
    \/ \E t \in Tasks : ClearRemove(t)
    \/ \E t \in Tasks, b \in DeleteArgs : CallDelete(t, b)
    \/ \E t \in Tasks : DeleteHaptic(t)
    \/ \E t \in Tasks : DeleteSave(t)
    \/ \E d \in ForwardSteps : Tick(d)
    \/ \E d \in BackwardSteps : TickBack(d)
    \/ LongAbsence
    \/ Restart

Spec == Init /\ [][Next]_vars

(***************************************************************************)
(* The handlers called one after another: every call waits for the one     *)
(* before it, no storage call fails, the process stays up and the clock    *)
(* only runs forward, also while a handler is suspended at an await.  The  *)
(* app loads its data once, at launch.                                     *)
(***************************************************************************)
InitSeq ==
    /\ now = StartInstant
    /\ InitStore
    /\ stCurrent = Null
    /\ stActivities = <<>>
    /\ stButtons = <<>>
    /\ stSettings = Null
    /\ stVersion = 0
    /\ tasks = [t \in Tasks |-> IdleTask]
    /\ nextId = 1
    /\ opsLeft = MaxOps + 1
    /\ ticksLeft = MaxTicks
    /\ failsLeft = 0
    /\ restartsLeft = 0
    /\ splitIn = Null
    /\ ServiceIdle
    /\ splitOut = <<>>

SeqLoad(t)     == AllIdle /\ isLoading /\ CallLoad(t)
SeqStart(t, b) == AllIdle /\ ~isLoading /\ CallStart(t, b)
SeqStop(t)     == AllIdle /\ ~isLoading /\ CallStop(t)
SeqSwitch(t, b) == AllIdle /\ ~isLoading /\ CallSwitch(t, b)

NextSeq ==
    \/ \E t \in Tasks : SeqLoad(t)
    \/ \E t \in Tasks : LoadMigrate(t)
    \/ \E t \in Tasks : LoadRead(t)
    \/ \E t \in Tasks : LoadSaveBlank(t)
    \/ \E t \in Tasks, b \in ButtonArgs : SeqStart(t, b)
    \/ \E t \in Tasks : StartAfterStop(t)
    \/ \E t \in Tasks : StartSaveActs(t)
    \/ \E t \in Tasks : StartHaptic(t)
    \/ \E t \in Tasks : StartSaveCur(t)
    \/ \E t \in Tasks : SeqStop(t)
    \/ \E t \in Tasks : StopHaptic(t)
    \/ \E t \in Tasks : StopSaveCur(t)
    \/ \E t \in Tasks : StopSaveActs(t)
    \/ \E t \in Tasks, b \in ButtonArgs : SeqSwitch(t, b)
    \/ \E t \in Tasks : SwitchAfter(t)
    \/ \E t \in Tasks : SwitchHaptic(t)
    \/ \E d \in ForwardSteps : Tick(d)

SpecSeq == InitSeq /\ [][NextSeq]_vars

(***************************************************************************)
(* splitActivityAtMidnight called directly on a completed activity.        *)
(***************************************************************************)
\* Places within a period: its first instants, its middle, its last instant.
SplitOffsets == {0, 1, PeriodMs \div 2, PeriodMs - 1}

\* 23:58 on the first day and 00:03 on the next.
ExampleStart == 23 * HourMs + 58 * MinuteMs
ExampleEnd   == DayMs + 3 * MinuteMs

\* The interval starts in the second period; it ends in the period before
\* (a clock that was set back) or in one of the periods that follow.
SplitStarts == {PeriodMs + o : o \in SplitOffsets}
SplitEnds   == {k * PeriodMs + o : k \in 0..(1 + MaxSplitPeriods), o \in SplitOffsets}
SplitInputs == (SplitStarts \X SplitEnds) \cup {<<ExampleStart, ExampleEnd>>}

SplitArg(startTime, endTime) ==
    Completed(OpenActivity(1, "studying", startTime, "#FF5722"), endTime)

InitSplit ==
    /\ now = StartInstant
    /\ InitStore
    /\ stCurrent = Null
    /\ stActivities = <<>>
    /\ stButtons = <<>>
    /\ stSettings = Null
    /\ stVersion = 0
    /\ tasks = [t \in Tasks |-> IdleTask]
    /\ nextId = 1
    /\ opsLeft = 0
    /\ ticksLeft = 0
    /\ failsLeft = 0
    /\ restartsLeft = 0
    /\ \E io \in SplitInputs : splitIn = SplitArg(io[1], io[2])
    /\ splitOut = <<>>
    /\ ServiceIdle

DoSplit ==
    /\ splitIn # Null
    /\ splitOut = <<>>
    /\ splitOut' = splitActivityAtMidnight(splitIn)
    /\ UNCHANGED <<now, storeVars, storageVars, tasks, nextId, boundVars, splitIn,
                   serviceVars>>

NextSplit == DoSplit

SpecSplit == InitSplit /\ [][NextSplit]_vars

\* The loop by iteration number returns what the transcribed loop returns.
SplitLoopAgrees ==
    (splitOut # <<>> /\ crossesMidnight(splitIn.startTime, splitIn.endTime))
        => splitOut = SplitLoop(splitIn, splitIn.startTime,
                                getDayBounds(splitIn.startTime).end)

(***************************************************************************)
(* Properties.                                                             *)
(***************************************************************************)
HistoryClosed(list) == \A i \in 1..Len(list) : "endTime" \in DOMAIN list[i]

\* The entries a step appends to the in-memory history.
Appended == SubSeq(activities', Len(activities) + 1, Len(activities'))

Appends ==
    /\ Len(activities') > Len(activities)
    /\ SubSeq(activities', 1, Len(activities)) = activities

\* The last loadData has finished, and without an error.
Loaded == ~isLoading /\ error = Null

\* C1: once loadData has finished, there is exactly one open interval in
\* every state: currentActivity is non-null and has no endTime, and every
\* entry of the history has an endTime.
C1_OneOpenInterval ==
    Loaded => (IsOpen(currentActivity) /\ HistoryClosed(activities))

\* C2: with the handlers called one after another and a clock that only runs
\* forward, between two calls the history and the open interval cover the
\* time since the first open interval without gap or overlap: every interval
\* starts at the end of the one closed just before it.
C2_GapFreeCoverage ==
    (AllIdle /\ ~isLoading) =>
        /\ IsOpen(currentActivity)
        /\ currentActivity.startTime <= now
        /\ \A i \in 1..Len(activities) :
              LET following == IF i < Len(activities) THEN activities[i + 1]
                               ELSE currentActivity
              IN  following.startTime = activities[i].endTime

StopPcs == {"stop_haptic", "stop_saveCur", "stop_saveActs"}

\* A stopCurrentActivity that found an open interval has run to its first await.
StopActed(t) == tasks[t].pc \notin StopPcs /\ tasks'[t].pc \in StopPcs

\* C3: a stopCurrentActivity called while an interval is open appends that
\* interval to the history, from its start to the instant of the call, and
\* opens a blank interval that starts at that same instant.
C3_StopClosesAtNowOpensBlank ==
    [][\A t \in Tasks : StopActed(t) =>
          /\ currentActivity # Null
          /\ Appends
          /\ Appended[1].startTime = currentActivity.startTime
          /\ Appended[Len(Appended)].endTime = now
          /\ HistoryClosed(Appended)
          /\ IsOpen(currentActivity')
          /\ currentActivity'.buttonId = BlankId
          /\ currentActivity'.startTime = now]_vars

\* A stop has closed the interval of a real button and opened a blank one.
C3_Witness ==
    /\ \E t \in Tasks : tasks[t].pc = "stop_haptic"
    /\ activities # <<>>
    /\ activities[Len(activities)].buttonId = "studying"
    /\ IsOpen(currentActivity)
    /\ currentActivity.buttonId = BlankId
    /\ currentActivity.startTime = activities[Len(activities)].endTime

\* startActivity opens its new activity in this step.
StartOpens ==
    /\ currentActivity' # currentActivity
    /\ IsOpen(currentActivity')
    /\ currentActivity'.buttonId # BlankId

\* C4: when startActivity opens the new interval, the interval that was open
\* is in the history with duration end - start, and the new interval starts
\* at the instant the previous one was closed at.
C4_StartAtClosingInstant ==
    [][StartOpens =>
          /\ activities' # <<>>
          /\ LET closed == activities'[Len(activities')]
             IN  /\ closed.duration = closed.endTime - closed.startTime
                 /\ currentActivity'.startTime = closed.endTime]_vars

\* The catalog has a visible button of this id.
VisibleButton(buttonId) ==
    \E i \in 1..Len(buttons) : buttons[i].id = buttonId /\ buttons[i].isVisible

\* C5: startActivity, or switchActivity on its start branch, called with an
\* id that no visible button of the catalog has, changes neither the open
\* interval nor the history nor the persisted records.
C5_RejectsUnknownOrHidden ==
    [][\A t \in Tasks, b \in ButtonArgs :
          (/\ ~VisibleButton(b)
           /\ \/ CallStart(t, b)
              \/ ~SwitchStops(b) /\ CallSwitch(t, b))
          => UNCHANGED <<currentActivity, activities, storageVars>>]_vars

\* C6: switchActivity(id) on the id of the open interval stops it: a blank
\* interval is open afterwards and what was closed has a duration of at least
\* zero.  On any other id it does what startActivity(id) does.
C6_SwitchStopsOrStarts ==
    [][\A t \in Tasks, b \in ButtonArgs : CallSwitch(t, b) =>
          IF SwitchStops(b)
          THEN /\ IsOpen(currentActivity')
               /\ currentActivity'.buttonId = BlankId
               /\ Appends
               /\ \A i \in 1..Len(Appended) : Appended[i].duration >= 0
          ELSE StartEntry(t, [IdleTask EXCEPT !.stack = <<"switch_after">>], b)]_vars

RECURSIVE SumDurations(_)
SumDurations(pieces) ==
    IF pieces = <<>> THEN 0
    ELSE pieces[1].duration + SumDurations(Tail(pieces))

\* A piece lies wholly inside one period.
InOnePeriod(a) == formatDateKey(a.startTime) = formatDateKey(a.endTime)

\* splitActivityAtMidnight has returned for an interval with start <= end.
SplitDone == splitOut # <<>> /\ splitIn.startTime <= splitIn.endTime

\* C7: the pieces of an interval with start <= end are in order, each inside
\* one period; the first starts at start, the last ends at end, each starts
\* where the one before it ends, and their durations add up to end - start.
C7_PiecesTileTheInterval ==
    SplitDone =>
        /\ splitOut[1].startTime = splitIn.startTime
        /\ splitOut[Len(splitOut)].endTime = splitIn.endTime
        /\ \A i \in 1..Len(splitOut) : InOnePeriod(splitOut[i])
        /\ \A i \in 1..(Len(splitOut) - 1) :
              splitOut[i + 1].startTime = splitOut[i].endTime
        /\ SumDurations(splitOut) = splitIn.endTime - splitIn.startTime

\* C8: no piece of an interval that crosses a period boundary has duration 0.
C8_NoEmptyPiece ==
    (SplitDone /\ crossesMidnight(splitIn.startTime, splitIn.endTime)) =>
        \A i \in 1..Len(splitOut) : splitOut[i].duration # 0

\* C9: every interval of the history, in memory and as handed to
\* saveActivities, starts and ends in the same period and is dated to the
\* period of its start.
WellDated(list) ==
    \A i \in 1..Len(list) :
        /\ InOnePeriod(list[i])
        /\ list[i].date = formatDateKey(list[i].startTime)

C9_HistoryWithinOnePeriod ==
    /\ WellDated(activities)
    /\ \A t \in Tasks :
          tasks[t].pc \in {"stop_haptic", "stop_saveCur", "stop_saveActs", "start_saveActs"}
              => WellDated(tasks[t].saveArg)

\* C10: every closed interval of the history has duration = endTime -
\* startTime, and the duration is never negative.
C10_DurationExactAndNonNegative ==
    \A i \in 1..Len(activities) :
        /\ activities[i].duration = activities[i].endTime - activities[i].startTime
        /\ activities[i].duration >= 0

\* C11: interval ids are unique: between two handler calls no two entries of
\* the history share an id, and the open interval's id is the id of no
\* history entry.
C11_UniqueIds ==
    AllIdle =>
        /\ \A i, j \in 1..Len(activities) :
              i # j => activities[i].id # activities[j].id
        /\ currentActivity # Null =>
              \A i \in 1..Len(activities) : activities[i].id # currentActivity.id

(***************************************************************************)
(* Recovery: the process has just been launched over what an earlier run   *)
(* left in storage, and loadData runs, at launch and once more when the    *)
(* app returns to the foreground.  No storage call fails, so the catalog   *)
(* is always read and loadData never saves first-launch buttons.           *)
(***************************************************************************)
\* The instant of the launch: the middle of a period of the third day.
LoadInstant == 2 * DayMs + PeriodMs + PeriodMs \div 2

\* How long before the launch the persisted open interval was opened: in
\* the same period, one or two periods back, exactly at the staleness
\* threshold, beyond it.
OpenAges == {1, PeriodMs \div 2, PeriodMs \div 2 + 1, PeriodMs + PeriodMs \div 2,
             StaleMs, StaleMs + 1}

\* The persisted open record: none, not JSON, without a startTime, or the
\* open interval of the earlier run.
PersistedCurrents ==
    {Null, Unparseable, [id |-> 1, buttonId |-> "studying", color |-> "#FF5722"]}
        \cup {OpenActivity(1, b, LoadInstant - age, "#FF5722") :
                  b \in {"studying", BlankId}, age \in OpenAges}

\* The persisted history: empty, or one interval closed on the first day.
PersistedHistories ==
    {<<>>, <<Completed(OpenActivity(2, "cycling", PeriodMs, "#00BCD4"), PeriodMs + 1)>>}

InitLoad ==
    /\ now = LoadInstant
    /\ InitStore
    /\ stCurrent \in PersistedCurrents
    /\ stActivities \in PersistedHistories
    /\ stButtons = StarterButtons
    /\ stSettings = DefaultSettings
    /\ stVersion = CURRENT_SCHEMA_VERSION
    /\ tasks = [t \in Tasks |-> IdleTask]
    /\ nextId = 3
    /\ opsLeft = 2
    /\ ticksLeft = MaxTicks
    /\ failsLeft = 0
    /\ restartsLeft = 0
    /\ splitIn = Null
    /\ ServiceIdle
    /\ splitOut = <<>>

\* loadData is called when no other call is in flight.
LoadAlone(t) == AllIdle /\ CallLoad(t)

NextLoad ==
    \/ \E t \in Tasks : LoadAlone(t)
    \/ \E t \in Tasks : LoadMigrate(t)
    \/ \E t \in Tasks : LoadRead(t)
    \/ \E t \in Tasks : LoadStaleSaveActs(t)
    \/ \E t \in Tasks : LoadStaleClearCur(t)
    \/ \E t \in Tasks : LoadRollSaveActs(t)
    \/ \E t \in Tasks : LoadRollSaveCur(t)
    \/ \E t \in Tasks : LoadSaveBlank(t)
    \/ \E d \in ForwardSteps : Tick(d)

SpecLoad == InitLoad /\ [][NextLoad]_vars

(***************************************************************************)
(* Recovery properties                                                     *)
(***************************************************************************)
\* The task that is running loadData is at the await named pc.
LoadAt(t, pc) == tasks[t].pc = pc

\* C12: when loadData reads no persisted open record, it creates an open
\* blank interval that starts at the instant of the read and carries the
\* persisted history as it was read; when its saveCurrentActivity returns,
\* that interval is the open interval of the store and the persisted open
\* record, the in-memory history is the history that was read, the
\* persisted history is untouched and loading has ended without error.
C12_NoRecordOpensBlankAtNow ==
    [][\A t \in Tasks :
          /\ (LoadAt(t, "load_read") /\ stCurrent = Null /\ ~LoadAt(t, "load_read")')
                 => /\ LoadAt(t, "load_saveBlank")'
                    /\ tasks'[t].data.currentActivity =
                           BlankActivity(now, tasks'[t].data.currentActivity.id)
                    /\ tasks'[t].data.activities = stActivities
                    /\ UNCHANGED <<activities, stActivities, stCurrent>>
          /\ (LoadAt(t, "load_saveBlank") /\ stCurrent = Null /\ ~LoadAt(t, "load_saveBlank")')
                 => /\ currentActivity' = tasks[t].data.currentActivity
                    /\ stCurrent' = currentActivity'
                    /\ activities' = tasks[t].data.activities
                    /\ UNCHANGED stActivities
                    /\ ~isLoading' /\ error' = Null]_vars

\* A first loadData over storage without an open record has completed at
\* LoadInstant: the one-entry history is unchanged and a blank is open.
C12_Witness ==
    /\ AllIdle /\ ~isLoading /\ opsLeft = 1
    /\ now = LoadInstant
    /\ currentActivity # Null
    /\ currentActivity = BlankActivity(LoadInstant, 3)
    /\ stCurrent = currentActivity
    /\ Len(activities) = 1 /\ activities = stActivities

\* The persisted open record cannot be parsed or has no valid startTime.
Malformed(stored) == stored # Null /\ ~ValidStart(stored)

\* C13: when loadData reads a persisted open record that is unparseable or
\* has no valid startTime, it raises no error and goes on to open a blank
\* interval that starts at the instant of the read.
C13_MalformedRecordStartsFresh ==
    [][\A t \in Tasks :
          (LoadAt(t, "load_read") /\ Malformed(stCurrent) /\ ~LoadAt(t, "load_read")')
             => /\ error' = Null
                /\ LoadAt(t, "load_saveBlank")'
                /\ tasks'[t].data.currentActivity =
                       BlankActivity(now, tasks'[t].data.currentActivity.id)]_vars

\* The unparseable half of C13: a record that is not JSON is read as no
\* record, and loadData goes on to open a blank interval without error.
UnparseableRecordStartsFresh ==
    [][\A t \in Tasks :
          (LoadAt(t, "load_read") /\ stCurrent = Unparseable /\ ~LoadAt(t, "load_read")')
             => /\ error' = Null
                /\ LoadAt(t, "load_saveBlank")']_vars

\* The sum of the durations of a list of pieces, for lists too long for
\* the recursion of SumDurations.
TotalDuration(pieces) ==
    BagCardinality([i \in 1..Len(pieces) |-> pieces[i].duration + 1]) - Len(pieces)

\* The entries loadData has added, in its local data, to the history it read.
LoadAdded(t) ==
    SubSeq(tasks'[t].data.activities, Len(stActivities) + 1,
           Len(tasks'[t].data.activities))

\* loadData reads a persisted open interval that has a valid startTime
\* (the step is the call's own, not the end of the process).
ReadsOpen(t) ==
    /\ LoadAt(t, "load_read") /\ ~LoadAt(t, "load_read")'
    /\ restartsLeft' = restartsLeft
    /\ ValidStart(stCurrent)

\* C14: when loadData reads a persisted open interval that started more than
\* 24 hours before now, it closes it at start + 8 hours and appends pieces
\* that run from start to start + 8 hours with durations totalling exactly
\* 8 hours, and after the two saves it opens a blank interval at now; an
\* interval that started 24 hours before now or later is not closed as stale.
C14_StaleClosedAtEightHours ==
    [][\A t \in Tasks :
          /\ ReadsOpen(t) =>
                IF now - stCurrent.startTime > StaleMs
                THEN /\ LoadAt(t, "load_stale_saveActs")'
                     /\ LoadAdded(t) # <<>>
                     /\ LoadAdded(t)[1].startTime = stCurrent.startTime
                     /\ LoadAdded(t)[Len(LoadAdded(t))].endTime =
                            stCurrent.startTime + FallbackMs
                     /\ \A i \in 1..Len(LoadAdded(t)) : InOnePeriod(LoadAdded(t)[i])
                     /\ TotalDuration(LoadAdded(t)) = FallbackMs
                ELSE ~LoadAt(t, "load_stale_saveActs")'
          /\ (LoadAt(t, "load_stale_clearCur") /\ ~LoadAt(t, "load_stale_clearCur")')
                => /\ LoadAt(t, "load_saveBlank")'
                   /\ stCurrent' = Null
                   /\ tasks'[t].data.currentActivity =
                          BlankActivity(now, tasks'[t].data.currentActivity.id)]_vars

\* C14 without its total: the pieces of the stale interval lose one
\* millisecond at each period boundary they cross.
StaleClosedShortOfEightHours ==
    [][\A t \in Tasks :
          /\ ReadsOpen(t) =>
                IF now - stCurrent.startTime > StaleMs
                THEN /\ LoadAt(t, "load_stale_saveActs")'
                     /\ LoadAdded(t) # <<>>
                     /\ LoadAdded(t)[1].startTime = stCurrent.startTime
                     /\ LoadAdded(t)[Len(LoadAdded(t))].endTime =
                            stCurrent.startTime + FallbackMs
                     /\ \A i \in 1..Len(LoadAdded(t)) : InOnePeriod(LoadAdded(t)[i])
                     /\ TotalDuration(LoadAdded(t)) = FallbackMs - (Len(LoadAdded(t)) - 1)
                ELSE ~LoadAt(t, "load_stale_saveActs")'
          /\ (LoadAt(t, "load_stale_clearCur") /\ ~LoadAt(t, "load_stale_clearCur")')
                => /\ LoadAt(t, "load_saveBlank")'
                   /\ stCurrent' = Null
                   /\ tasks'[t].data.currentActivity =
                          BlankActivity(now, tasks'[t].data.currentActivity.id)]_vars

\* loadData reads a persisted open interval that is not stale and started
\* in an earlier period than now.
ReadsRolledOver(t) ==
    /\ ReadsOpen(t)
    /\ now - stCurrent.startTime <= StaleMs
    /\ formatDateKey(stCurrent.startTime) # formatDateKey(now)

\* The periods that lie between the start of an interval and the start of
\* the current period.
PeriodsCrossed(startTime, intervalStart) ==
    (intervalStart - getDayBounds(startTime).start) \div PeriodMs

\* After saveActivities, the rollover re-opens the recovered interval with
\* the same buttonId at the first instant of the period loadData ran in.
RollReopens(t) ==
    (LoadAt(t, "load_roll_saveActs") /\ ~LoadAt(t, "load_roll_saveActs")')
       => /\ LoadAt(t, "load_roll_saveCur")'
          /\ tasks'[t].data.currentActivity.buttonId = stCurrent.buttonId
          /\ tasks'[t].data.currentActivity.startTime =
                 getDayBounds(tasks[t].data.loadNow).start
          /\ tasks'[t].data.currentActivity.date = formatDateKey(tasks[t].data.loadNow)
          /\ ~("endTime" \in DOMAIN tasks'[t].data.currentActivity)

\* When saveCurrentActivity returns, the re-opened interval is the open
\* interval of the store and the persisted open record.
RollCompletes(t) ==
    (LoadAt(t, "load_roll_saveCur") /\ ~LoadAt(t, "load_roll_saveCur")')
       => /\ currentActivity' = tasks[t].data.currentActivity
          /\ stCurrent' = currentActivity'
          /\ activities' = tasks[t].data.activities

\* C15: when loadData reads a non-stale open interval of an earlier period,
\* the pieces it appends cover exactly [start, start of the current period]:
\* the first starts at start, each starts where the one before it ends, the
\* last ends at the period start, and there is one piece per period crossed;
\* the interval is re-opened with the same buttonId, start = the period
\* start and date = the current period key.
C15_RolloverCoversToPeriodStart ==
    [][\A t \in Tasks :
          /\ ReadsRolledOver(t) =>
                /\ LoadAt(t, "load_roll_saveActs")'
                /\ LoadAdded(t) # <<>>
                /\ LoadAdded(t)[1].startTime = stCurrent.startTime
                /\ LoadAdded(t)[Len(LoadAdded(t))].endTime = getDayBounds(now).start
                /\ \A i \in 1..(Len(LoadAdded(t)) - 1) :
                      LoadAdded(t)[i + 1].startTime = LoadAdded(t)[i].endTime
                /\ Len(LoadAdded(t)) =
                       PeriodsCrossed(stCurrent.startTime, getDayBounds(now).start)
          /\ RollReopens(t)
          /\ RollCompletes(t)]_vars

\* What the rollover does append: pieces one millisecond apart, and one
\* more than the periods crossed, the last being empty.
RolloverLeavesGapsAndEmptyPiece ==
    [][\A t \in Tasks :
          /\ ReadsRolledOver(t) =>
                /\ LoadAt(t, "load_roll_saveActs")'
                /\ LoadAdded(t) # <<>>
                /\ LoadAdded(t)[1].startTime = stCurrent.startTime
                /\ LoadAdded(t)[Len(LoadAdded(t))].endTime = getDayBounds(now).start
                /\ LoadAdded(t)[Len(LoadAdded(t))].duration = 0
                /\ \A i \in 1..(Len(LoadAdded(t)) - 1) :
                      LoadAdded(t)[i + 1].startTime = LoadAdded(t)[i].endTime + 1
                /\ Len(LoadAdded(t)) =
                       PeriodsCrossed(stCurrent.startTime, getDayBounds(now).start) + 1
          /\ RollReopens(t)
          /\ RollCompletes(t)]_vars

\* loadData reads, without a failed read, a persisted open interval that
\* started in the current period (and so less than 24 hours ago).
ReadsSamePeriod(t) ==
    /\ ReadsOpen(t)
    /\ failsLeft' = failsLeft
    /\ stButtons # <<>>
    /\ now - stCurrent.startTime <= StaleMs
    /\ formatDateKey(stCurrent.startTime) = formatDateKey(now)

\* C16: when loadData reads a persisted open interval of the current period,
\* it ends in that step without raising an error: the open interval of the
\* store is the persisted record (same id, buttonId and startTime, still
\* open), the in-memory history is the persisted history, and neither the
\* history record nor the open record is written.
C16_SamePeriodResumesUnchanged ==
    [][\A t \in Tasks :
          ReadsSamePeriod(t) =>
             /\ tasks'[t] = IdleTask
             /\ ~isLoading' /\ UNCHANGED error
             /\ currentActivity' = stCurrent
             /\ ~("endTime" \in DOMAIN currentActivity')
             /\ activities' = stActivities
             /\ UNCHANGED <<stActivities, stCurrent>>]_vars

\* A first loadData has resumed the studying interval that an earlier run
\* opened 30 seconds before, in the same period, over a one-entry history.
C16_Witness ==
    /\ AllIdle /\ ~isLoading /\ opsLeft = 1
    /\ now = LoadInstant
    /\ currentActivity = OpenActivity(1, "studying", LoadInstant - PeriodMs \div 2, "#FF5722")
    /\ stCurrent = currentActivity
    /\ timerState = [startTime |-> LoadInstant - PeriodMs \div 2,
                     currentDuration |-> PeriodMs \div 2]
    /\ Len(activities) = 1 /\ activities = stActivities

\* The second of two loadData calls ends, the clock not having moved since
\* the first was called (SpecLoad has no storage failure).
SecondLoadEnds ==
    /\ isLoading /\ ~isLoading'
    /\ opsLeft = 0
    /\ ticksLeft = MaxTicks

\* C17: when loadData has run twice in a row at the same instant and
\* without a storage failure, the second run leaves the open interval and
\* the history, in memory and persisted, as the first run left them.
C17_RecoveryIdempotent ==
    [][SecondLoadEnds =>
          /\ currentActivity' = currentActivity
          /\ activities' = activities
          /\ UNCHANGED <<stCurrent, stActivities>>]_vars

\* loadData has run twice at LoadInstant over a studying interval of an
\* earlier period: it is open from the start of the current period and the
\* history holds the pieces of the first run only.
C17_Witness ==
    /\ AllIdle /\ ~isLoading /\ error = Null
    /\ opsLeft = 0 /\ ticksLeft = MaxTicks
    /\ currentActivity # Null
    /\ currentActivity.buttonId = "studying"
    /\ currentActivity.startTime = getDayBounds(LoadInstant).start
    /\ stCurrent = currentActivity
    /\ Len(activities) = 3
    /\ activities = stActivities

\* Every entry of the list old is an entry of the list new.
KeepsAll(old, new) ==
    \A i \in 1..Len(old) : \E j \in 1..Len(new) : new[j] = old[i]

\* A loadData call ends (its final set, or its catch block).
LoadEnds == isLoading /\ ~isLoading'

\* The history loadData holds after its read: in its locals, or in the store
\* when the call has ended in that step.
ReadHistory(t) ==
    IF tasks'[t] = IdleTask THEN activities' ELSE tasks'[t].data.activities

\* The read of a loadData call (the step is the call's own).
Reads(t) ==
    LoadAt(t, "load_read") /\ ~LoadAt(t, "load_read")' /\ restartsLeft' = restartsLeft

\* C18: every interval of the persisted history is in the history loadData
\* holds after its read; when loadData ends, every interval the in-memory
\* history held is still in the in-memory history; and a persisted open
\* interval that loadData reads is either resumed as the open interval or
\* closed into pieces, beginning at its start, that are added to the history.
C18_RecoveryNeverDropsData ==
    [][/\ \A t \in Tasks : Reads(t) => KeepsAll(stActivities, ReadHistory(t))
       /\ LoadEnds => KeepsAll(activities, activities')
       /\ \A t \in Tasks :
             (ReadsOpen(t) /\ failsLeft' = failsLeft) =>
                \/ /\ tasks'[t] = IdleTask
                   /\ currentActivity' = stCurrent
                \/ /\ LoadAt(t, "load_saveButtons")'
                   /\ tasks'[t].data.currentActivity = stCurrent
                \/ /\ LoadAdded(t) # <<>>
                   /\ LoadAdded(t)[1].id = stCurrent.id
                   /\ LoadAdded(t)[1].buttonId = stCurrent.buttonId
                   /\ LoadAdded(t)[1].startTime = stCurrent.startTime]_vars

\* C18 for the calls of loadData during which no storage call fails.
NeverDropsDataWithoutFailure ==
    [][/\ \A t \in Tasks :
             (Reads(t) /\ failsLeft' = failsLeft) => KeepsAll(stActivities, ReadHistory(t))
       /\ (LoadEnds /\ error' = Null /\ failsLeft' = failsLeft /\ failsLeft = MaxFails)
             => KeepsAll(activities, activities')]_vars

(***************************************************************************)
(* handleAppStateChange: the app goes to the background, which saves the   *)
(* open interval and the history of the store, and comes back to the       *)
(* foreground, which calls loadData.  appState.current is assigned after   *)
(* the awaits, so a save that throws leaves it 'active' and the return to  *)
(* the foreground then does nothing.  The invocation's task stands for the *)
(* listener: at "bg_away" the app is in the background.                    *)
(***************************************************************************)
BgAfterCur(t, tk) ==
    tasks' = [tasks EXCEPT ![t] =
                 [tk EXCEPT !.pc = IF tk.saveArg # <<>> THEN "bg_saveActs" ELSE "bg_away"]]

\* The 'background' event, to the first await.
CallBackground(t) ==
    /\ FreeTask(t)
    /\ opsLeft > 0
    /\ opsLeft' = opsLeft - 1
    /\ LET tk == [IdleTask EXCEPT !.act = currentActivity, !.saveArg = activities]
       IN  IF currentActivity # Null
           THEN tasks' = [tasks EXCEPT ![t] = [tk EXCEPT !.pc = "bg_saveCur"]]
           ELSE BgAfterCur(t, tk)
    /\ UNCHANGED <<now, storeVars, storageVars, nextId, ticksLeft, failsLeft,
                   restartsLeft, splitVars, serviceVars>>

\* await storageService.current.saveCurrentActivity(currentActivity)
BgSaveCur(t) ==
    /\ tasks[t].pc = "bg_saveCur"
    /\ \/ /\ stCurrent' = tasks[t].act
          /\ BgAfterCur(t, tasks[t])
          /\ NoFail
       \/ /\ UseFail
          /\ Throw(t)
          /\ UNCHANGED stCurrent
    /\ UNCHANGED <<now, storeVars, stActivities, stButtons, stSettings, stVersion,
                   nextId, opsLeft, ticksLeft, restartsLeft, splitVars, serviceVars>>

\* await storageService.current.saveActivities(activities)
BgSaveActs(t) ==
    /\ tasks[t].pc = "bg_saveActs"
    /\ \/ /\ stActivities' = StoredActivities(tasks[t].saveArg, now)
          /\ tasks' = [tasks EXCEPT ![t].pc = "bg_away"]
          /\ NoFail
       \/ /\ UseFail
          /\ Throw(t)
          /\ UNCHANGED stActivities
    /\ UNCHANGED <<now, storeVars, stCurrent, stButtons, stSettings, stVersion,
                   nextId, opsLeft, ticksLeft, restartsLeft, splitVars, serviceVars>>

\* The 'active' event after the app was in the background: store.loadData().
Foreground(t) ==
    /\ tasks[t].pc = "bg_away"
    /\ isLoading' = TRUE
    /\ error' = Null
    /\ tasks' = [tasks EXCEPT ![t] = [IdleTask EXCEPT !.pc = "load_migrate"]]
    /\ UNCHANGED <<now, currentActivity, buttons, activities, settings, timerState,
                   storageVars, nextId, boundVars, splitVars, serviceVars>>

(***************************************************************************)
(* The handlers called one after another, with storage calls that may      *)
(* fail, and the app going to the background and coming back between       *)
(* them.  The clock only runs forward.                                     *)
(***************************************************************************)
InitReload ==
    /\ now = StartInstant
    /\ InitStore
    /\ stCurrent = Null
    /\ stActivities = <<>>
    /\ stButtons = <<>>
    /\ stSettings = Null
    /\ stVersion = 0
    /\ tasks = [t \in Tasks |-> IdleTask]
    /\ nextId = 1
    /\ opsLeft = MaxOps + 1
    /\ ticksLeft = MaxTicks
    /\ failsLeft = MaxFails
    /\ restartsLeft = 0
    /\ splitIn = Null
    /\ ServiceIdle
    /\ splitOut = <<>>

SeqBackground(t) == AllIdle /\ ~isLoading /\ CallBackground(t)

NextReload ==
    \/ \E t \in Tasks : SeqLoad(t)
    \/ \E t \in Tasks : SeqBackground(t)
    \/ \E t \in Tasks : BgSaveCur(t)
    \/ \E t \in Tasks : BgSaveActs(t)
    \/ \E t \in Tasks : Foreground(t)
    \/ \E t \in Tasks : LoadMigrate(t)
    \/ \E t \in Tasks : LoadRead(t)
    \/ \E t \in Tasks : LoadRollSaveActs(t)
    \/ \E t \in Tasks : LoadRollSaveCur(t)
    \/ \E t \in Tasks : LoadSaveButtons(t)
    \/ \E t \in Tasks : LoadSaveBlank(t)
    \/ \E t \in Tasks, b \in ButtonArgs : SeqStart(t, b)
    \/ \E t \in Tasks : StartAfterStop(t)
    \/ \E t \in Tasks : StartSaveActs(t)
    \/ \E t \in Tasks : StartHaptic(t)
    \/ \E t \in Tasks : StartSaveCur(t)
    \/ \E t \in Tasks : SeqStop(t)
    \/ \E t \in Tasks : StopHaptic(t)
    \/ \E t \in Tasks : StopSaveCur(t)
    \/ \E t \in Tasks : StopSaveActs(t)
    \/ \E t \in Tasks, b \in ButtonArgs : SeqSwitch(t, b)
    \/ \E t \in Tasks : SwitchAfter(t)
    \/ \E t \in Tasks : SwitchHaptic(t)
    \/ \E d \in ForwardSteps : Tick(d)

SpecReload == InitReload /\ [][NextReload]_vars

(***************************************************************************)
(* saveActivities followed by loadActivities, on histories whose intervals *)
(* have several ages.  A year does not fit TLC's integers in milliseconds: *)
(* the intervals lie in the first days of the clock and the new Date() of  *)
(* saveActivities is drawn as a calendar day up to 400 days later.         *)
(***************************************************************************)
\* The calendar days the intervals of the list started on.
RetainStartDays == {0, 1, 10}

\* The calendar days saveActivities runs on: around 365 days after them.
RetainSaveDays ==
    {10, MAX_ACTIVITY_AGE_DAYS - 1, MAX_ACTIVITY_AGE_DAYS, MAX_ACTIVITY_AGE_DAYS + 1,
     MAX_ACTIVITY_AGE_DAYS + 10, MAX_ACTIVITY_AGE_DAYS + 11, 400}

\* A closed interval of one second that started on the given day.
AgedActivity(id, day) ==
    Completed(OpenActivity(id, "studying", day * DayMs + StartInstant, "#FF5722"),
              day * DayMs + StartInstant + 1000)

RetainLists ==
    {<<>>} \cup {<<AgedActivity(1, d)>> : d \in RetainStartDays}
           \cup {<<AgedActivity(1, d), AgedActivity(2, e)>> : d, e \in RetainStartDays}

InitRetain ==
    /\ now = 10 * DayMs + StartInstant + 1000
    /\ currentActivity = Null
    /\ buttons = StarterButtons
    /\ activities \in RetainLists
    /\ settings = DefaultSettings
    /\ isLoading = FALSE
    /\ error = Null
    /\ timerState = Null
    /\ stCurrent = Null
    /\ stActivities = <<>>
    /\ stButtons = StarterButtons
    /\ stSettings = DefaultSettings
    /\ stVersion = CURRENT_SCHEMA_VERSION
    /\ tasks = [t \in Tasks |-> IdleTask]
    /\ nextId = 3
    /\ opsLeft = 1
    /\ ticksLeft = 0
    /\ failsLeft = 0
    /\ restartsLeft = 0
    /\ splitIn = Null
    /\ ServiceIdle
    /\ splitOut = <<>>

\* await saveActivities(list), which succeeds, on the day today.
SaveActivities(t, today) ==
    /\ FreeTask(t)
    /\ opsLeft > 0
    /\ opsLeft' = opsLeft - 1
    /\ stActivities' = StoredOn(activities, today)
    /\ tasks' = [tasks EXCEPT ![t] =
                    [IdleTask EXCEPT !.pc = "retain_load", !.saveArg = activities,
                                     !.data = [today |-> today]]]
    /\ UNCHANGED <<now, storeVars, stCurrent, stButtons, stSettings, stVersion,
                   nextId, ticksLeft, failsLeft, restartsLeft, splitVars, serviceVars>>

\* await loadActivities(): the list it returns replaces the history.
LoadActivities(t) ==
    /\ tasks[t].pc = "retain_load"
    /\ activities' = LoadWithRetry(stActivities, <<>>, FALSE)
    /\ tasks' = [tasks EXCEPT ![t] = [IdleTask EXCEPT !.data = tasks[t].data]]
    /\ UNCHANGED <<now, currentActivity, buttons, settings, isLoading, error,
                   timerState, storageVars, nextId, boundVars, splitVars, serviceVars>>

NextRetain ==
    \/ \E t \in Tasks, today \in RetainSaveDays : SaveActivities(t, today)
    \/ \E t \in Tasks : LoadActivities(t)

SpecRetain == InitRetain /\ [][NextRetain]_vars

\* loadActivities returns after the saveActivities of the same invocation.
Reloaded(t) == LoadAt(t, "retain_load") /\ ~LoadAt(t, "retain_load")'

\* C19: loadActivities() after a successful saveActivities(list) returns
\* every interval of the list, with the same fields, whatever its age.
C19_HistoryRetainedAcrossSaveLoad ==
    [][\A t \in Tasks : Reloaded(t) => KeepsAll(tasks[t].saveArg, activities')]_vars

\* What is retained: every interval dated to the cutoff day (365 days
\* before the day of the save) or later, and no other.
RetainedUpToOneYear ==
    [][\A t \in Tasks :
          Reloaded(t) =>
             \A i \in 1..Len(tasks[t].saveArg) :
                (\E j \in 1..Len(activities') : activities'[j] = tasks[t].saveArg[i])
                   <=> tasks[t].data.today - DayOf(tasks[t].saveArg[i].startTime)
                          <= MAX_ACTIVITY_AGE_DAYS]_vars

\* The awaits of startActivity and stopCurrentActivity that write to storage.
WritePcs == {"stop_saveCur", "stop_saveActs", "start_saveActs", "start_saveCur"}

\* The write an invocation is suspended at throws after its retries.
WriteFails(t) ==
    /\ tasks[t].pc \in WritePcs
    /\ failsLeft' < failsLeft
    /\ tasks'[t] = IdleTask

\* What the invocation was asked to open: the button of startActivity or
\* switchActivity, the blank interval for a stop.
Requested(tk) == IF tk.buttonId # "" THEN tk.buttonId ELSE BlankId

\* The in-memory transition of the invocation is complete after the step.
TransitionComplete(tk) ==
    /\ IsOpen(currentActivity')
    /\ currentActivity'.buttonId = Requested(tk)
    /\ HistoryClosed(activities')
    /\ tk.saveArg # <<>> => activities' = tk.saveArg

\* C20: when a write to storage fails during startActivity,
\* stopCurrentActivity or switchActivity, the in-memory transition is complete
\* all the same: the open interval is the requested one (the blank one for a
\* stop) and the history holds the closed pieces of the one before.
C20_WriteFailureKeepsTransition ==
    [][\A t \in Tasks : WriteFails(t) => TransitionComplete(tasks[t])]_vars

\* The failures C20 holds for: those of a stop that was asked for as such,
\* and that of the saveCurrentActivity that ends startActivity.
WriteFailureAfterTransition ==
    [][\A t \in Tasks :
          (/\ WriteFails(t)
           /\ \/ tasks[t].pc = "start_saveCur"
              \/ tasks[t].buttonId = "")
             => TransitionComplete(tasks[t])]_vars

(***************************************************************************)
(* Persistence and ordering properties                                     *)
(***************************************************************************)
\* The persisted history holds a closed copy of the persisted open interval.
ClosedCopyPersisted ==
    /\ stCurrent # Null
    /\ \E i \in 1..Len(stActivities) :
          /\ stActivities[i].id = stCurrent.id
          /\ stActivities[i].startTime = stCurrent.startTime

\* An interval closed in memory at the instant the persisted open interval
\* starts, which is another interval, is missing from the persisted history.
PredecessorLost ==
    /\ stCurrent # Null
    /\ \E i \in 1..Len(activities) :
          /\ activities[i].endTime = stCurrent.startTime
          /\ activities[i].id # stCurrent.id
          /\ \A j \in 1..Len(stActivities) : stActivities[j] # activities[i]

\* C21: in every state, and so wherever the process may be killed during
\* startActivity or stopCurrentActivity, the persisted open record and the
\* persisted history fit together: the history holds no closed copy of the
\* persisted open interval, and it holds the interval that was closed when
\* the persisted open interval was opened.
C21_PersistedPairAtomic == ~ClosedCopyPersisted /\ ~PredecessorLost

\* Between the calls the persisted pair does fit together.
PersistedPairFitsWhenIdle == AllIdle => C21_PersistedPairAtomic


(***************************************************************************)
(* StorageService.saveWithRetry: the retry timers of one key.  The key is  *)
(* CURRENT_ACTIVITY, written by saveCurrentActivity; each call saves a     *)
(* fresh record, so the record's id tells the calls apart.                 *)
(***************************************************************************)
MAX_RETRY_ATTEMPTS == 3
RETRY_DELAY_MS     == 1000

MaxSaves       == 2       \* saveCurrentActivity calls
MaxSaveFails   == 5       \* setItem calls that fail
RetryStepMs    == 500     \* the step of the clock
MaxCallDelayMs == 1000    \* the calls arrive within this time

\* delay = RETRY_DELAY_MS * Math.pow(2, attempt)
RetryDelay(attempt) == RETRY_DELAY_MS * 2^attempt

\* The setItem calls are served in the order they were made: the number of
\* the next one.
NextSetItem ==
    1 + Len(saves) + Len(SelectSeq(saves, LAMBDA s : s.attempt >= 1))
      + Len(SelectSeq(saves, LAMBDA s : s.attempt >= 2))
      + Len(SelectSeq(saves, LAMBDA s : s.attempt >= 3))

\* saveWithRetry(key, data): attempt 0 is at its setItem.
SaveCall(data) ==
    [data |-> data, attempt |-> 0, pc |-> "write", due |-> 0, seq |-> NextSetItem]

\* The handle of the timeout that call i schedules after its attempt failed.
TimerHandle(i, attempt) == [call |-> i, attempt |-> attempt]

\* The timeout of a handle has neither fired nor been cleared.
TimerPending(h) ==
    /\ h # Null
    /\ saves[h.call].pc = "timer"
    /\ saves[h.call].attempt = h.attempt

\* clearTimeout(h): the callback of a pending timer never runs, so the promise
\* it would settle stays pending; clearing a timer that has fired does nothing.
ClearTimeout(h) ==
    IF TimerPending(h) THEN [saves EXCEPT ![h.call].pc = "cleared"] ELSE saves

\* The setItem call that the storage serves next.
FirstInFlight(i) ==
    /\ i \in 1..Len(saves)
    /\ saves[i].pc = "write"
    /\ \A j \in 1..Len(saves) : saves[j].pc = "write" => saves[i].seq <= saves[j].seq

InitRetry ==
    /\ now = StartInstant
    /\ InitStore
    /\ stCurrent = Null
    /\ stActivities = <<>>
    /\ stButtons = <<>>
    /\ stSettings = Null
    /\ stVersion = 0
    /\ tasks = [t \in Tasks |-> IdleTask]
    /\ nextId = 1
    /\ opsLeft = 0
    /\ ticksLeft = 0
    /\ failsLeft = MaxSaveFails
    /\ restartsLeft = 0
    /\ splitIn = Null
    /\ splitOut = <<>>
    /\ ServiceIdle

\* storage.saveCurrentActivity(activity) with a record: saveWithRetry up to
\* its await of setItem.
CallSaveCurrentActivity ==
    /\ Len(saves) < MaxSaves
    /\ saves' = Append(saves, SaveCall(BlankActivity(now, nextId)))
    /\ nextId' = nextId + 1
    /\ UNCHANGED <<now, storeVars, storageVars, tasks, boundVars, splitVars,
                   retryDelays, timerVars, chartVars>>

\* setItem succeeds: the value is stored, the timer the map holds for the key
\* is cleared and its entry deleted, and the call (with the promises of the
\* earlier attempts that wait for it) resolves.
SetItemDone(i) ==
    /\ FirstInFlight(i)
    /\ stCurrent' = saves[i].data
    /\ saves' = [ClearTimeout(retryDelays) EXCEPT ![i].pc = "resolved"]
    /\ retryDelays' = Null
    /\ UNCHANGED <<now, storeVars, stActivities, stButtons, stSettings, stVersion,
                   tasks, nextId, boundVars, splitVars, timerVars, chartVars>>

\* setItem fails: below MAX_RETRY_ATTEMPTS a retry is scheduled and its handle
\* replaces the map's entry for the key; otherwise the call rejects.
SetItemFails(i) ==
    /\ FirstInFlight(i)
    /\ failsLeft > 0
    /\ failsLeft' = failsLeft - 1
    /\ IF saves[i].attempt < MAX_RETRY_ATTEMPTS
         THEN /\ saves' = [saves EXCEPT ![i].pc = "timer",
                                        ![i].due = now + RetryDelay(saves[i].attempt)]
              /\ retryDelays' = TimerHandle(i, saves[i].attempt)
         ELSE /\ saves' = [saves EXCEPT ![i].pc = "rejected"]
              /\ UNCHANGED retryDelays
    /\ UNCHANGED <<now, storeVars, storageVars, tasks, nextId, opsLeft, ticksLeft,
                   restartsLeft, splitVars, timerVars, chartVars>>

\* The timeout's callback: saveWithRetry(key, data, attempt + 1) up to its
\* await of setItem.
RetryFires(i) ==
    /\ i \in 1..Len(saves)
    /\ saves[i].pc = "timer"
    /\ now >= saves[i].due
    /\ saves' = [saves EXCEPT ![i].pc = "write",
                              ![i].attempt = saves[i].attempt + 1,
                              ![i].seq = NextSetItem]
    /\ UNCHANGED <<now, storeVars, storageVars, tasks, nextId, boundVars, splitVars,
                   retryDelays, timerVars, chartVars>>

\* Time passes, never beyond a timeout that is due.
RetryClock ==
    /\ \A i \in 1..Len(saves) : saves[i].pc = "timer" => now < saves[i].due
    /\ \/ \E i \in 1..Len(saves) : saves[i].pc = "timer"
       \/ Len(saves) < MaxSaves /\ now < StartInstant + MaxCallDelayMs
    /\ now' = now + RetryStepMs
    /\ UNCHANGED <<storeVars, storageVars, tasks, nextId, boundVars, splitVars,
                   serviceVars>>

NextRetry ==
    \/ CallSaveCurrentActivity
    \/ \E i \in 1..MaxSaves : SetItemDone(i)
    \/ \E i \in 1..MaxSaves : SetItemFails(i)
    \/ \E i \in 1..MaxSaves : RetryFires(i)
    \/ RetryClock

SpecRetry == InitRetry /\ [][NextRetry]_vars

\* No setItem is in flight and no retry is scheduled.
SavesQuiet ==
    \A i \in 1..Len(saves) : saves[i].pc \notin {"write", "timer"}

\* C22: writes to one key are applied in issue order: once the saves of the
\* key have come to rest, the stored value is that of the save issued last
\* (unless that save gave up after all its attempts failed).
C22_LastIssuedSaveIsStored ==
    (/\ Len(saves) > 0
     /\ SavesQuiet
     /\ saves[Len(saves)].pc # "rejected")
        => stCurrent = saves[Len(saves)].data

\* An older value is never stored over a newer one.
OlderNeverOverwritesNewer ==
    [][(stCurrent # Null /\ stCurrent' # Null) => stCurrent'.id >= stCurrent.id]_vars

\* Without a failed setItem the saves are applied in issue order.
IssueOrderWithoutFailure ==
    (failsLeft = MaxSaveFails /\ Len(saves) > 0 /\ SavesQuiet)
        => stCurrent = saves[Len(saves)].data


\* The storage answers every setItem, a timeout that is due fires and time
\* passes: the event loop runs every callback that is ready.
SpecRetryLive ==
    /\ InitRetry
    /\ [][NextRetry]_vars
    /\ WF_vars(RetryClock)
    /\ \A i \in 1..MaxSaves : WF_vars(RetryFires(i))
    /\ \A i \in 1..MaxSaves : WF_vars(SetItemDone(i) \/ SetItemFails(i))

\* The promise of call i has resolved or rejected.
Settled(i) ==
    /\ i \in 1..Len(saves)
    /\ saves[i].pc \in {"resolved", "rejected"}

\* C29: every save call eventually settles, also when other saves of the key
\* run concurrently: it resolves or, all attempts failed, rejects.
C29_EverySaveSettles ==
    \A i \in 1..MaxSaves : (Len(saves) >= i) ~> Settled(i)

\* A save that rejects has made MAX_RETRY_ATTEMPTS attempts in total.
RejectsAfterMaxAttempts ==
    \A i \in 1..Len(saves) :
        saves[i].pc = "rejected" => saves[i].attempt + 1 = MAX_RETRY_ATTEMPTS

\* A save whose retry timer nobody clears settles.
SettlesUnlessCleared ==
    \A i \in 1..MaxSaves :
        (Len(saves) >= i) ~> (Settled(i) \/ (Len(saves) >= i /\ saves[i].pc = "cleared"))


(***************************************************************************)
(* The handlers called while earlier calls are suspended: as SpecSeq (no   *)
(* storage call fails, the process stays up, the clock runs forward, one   *)
(* load at launch), but a transition may be called while another one is at *)
(* an await.                                                               *)
(***************************************************************************)
\* The launch and two transitions.
InitOverlap ==
    /\ now = StartInstant
    /\ InitStore
    /\ stCurrent = Null
    /\ stActivities = <<>>
    /\ stButtons = <<>>
    /\ stSettings = Null
    /\ stVersion = 0
    /\ tasks = [t \in Tasks |-> IdleTask]
    /\ nextId = 1
    /\ opsLeft = MaxOps
    /\ ticksLeft = MaxTicks
    /\ failsLeft = 0
    /\ restartsLeft = 0
    /\ splitIn = Null
    /\ splitOut = <<>>
    /\ ServiceIdle

OverlapStart(t, b)  == ~isLoading /\ CallStart(t, b)
OverlapStop(t)      == ~isLoading /\ CallStop(t)
OverlapSwitch(t, b) == ~isLoading /\ CallSwitch(t, b)

NextOverlap ==
    \/ \E t \in Tasks : SeqLoad(t)
    \/ \E t \in Tasks : LoadMigrate(t)
    \/ \E t \in Tasks : LoadRead(t)
    \/ \E t \in Tasks : LoadSaveBlank(t)
    \/ \E t \in Tasks, b \in ButtonArgs : OverlapStart(t, b)
    \/ \E t \in Tasks : StartAfterStop(t)
    \/ \E t \in Tasks : StartSaveActs(t)
    \/ \E t \in Tasks : StartHaptic(t)
    \/ \E t \in Tasks : StartSaveCur(t)
    \/ \E t \in Tasks : OverlapStop(t)
    \/ \E t \in Tasks : StopHaptic(t)
    \/ \E t \in Tasks : StopSaveCur(t)
    \/ \E t \in Tasks : StopSaveActs(t)
    \/ \E t \in Tasks, b \in ButtonArgs : OverlapSwitch(t, b)
    \/ \E t \in Tasks : SwitchAfter(t)
    \/ \E t \in Tasks : SwitchHaptic(t)
    \/ \E d \in ForwardSteps : Tick(d)

SpecOverlap == InitOverlap /\ [][NextOverlap]_vars

\* The persisted records are those of the store.
PersistedIsStore ==
    /\ stCurrent = currentActivity
    /\ stActivities = StoredActivities(activities, now)

\* No interval is in the history twice.
NoIntervalClosedTwice ==
    \A i, j \in 1..Len(activities) :
        (i < j /\ activities[i].startTime = activities[j].startTime)
            => activities[i].id # activities[j].id

\* No two history entries of positive length overlap.
NoOverlappingEntries ==
    \A i, j \in 1..Len(activities) :
        (i # j /\ activities[i].startTime < activities[i].endTime
               /\ activities[j].startTime < activities[j].endTime)
            => \/ activities[i].endTime <= activities[j].startTime
               \/ activities[j].endTime <= activities[i].startTime

\* Every history entry of the store is in the persisted record.
NoEntryMissing ==
    \A i \in 1..Len(activities) :
        \E j \in 1..Len(stActivities) : stActivities[j] = activities[i]

\* C23: transitions are serialized: after calls that overlapped (one issued
\* while another was suspended at an await) have all returned, the store and
\* the persisted records are as after the same calls run one after the
\* other: the persisted records are the store's, no interval is closed twice,
\* no history entries overlap and none is missing from the persisted record.
C23_OverlappingCallsAsInSequence ==
    (AllIdle /\ ~isLoading) =>
        /\ PersistedIsStore
        /\ NoIntervalClosedTwice
        /\ NoOverlappingEntries
        /\ NoEntryMissing

\* Its parts, each of which overlapping calls break.
ClosedTwiceAfterReturn == (AllIdle /\ ~isLoading) => NoIntervalClosedTwice

EntryMissingAfterReturn == (AllIdle /\ ~isLoading) => NoEntryMissing


(***************************************************************************)
(* The charts: ChartCalculationService.calculateSegments (PieChart), the   *)
(* segments of FunctionalFigmaChart, and the current-time angles.          *)
(* A percentage or an angle is kept as the exact quotient num / den of the *)
(* floating-point expression; a percentage is 100 * num / den.             *)
(***************************************************************************)
RECURSIVE GCD(_, _)
GCD(a, b) == IF b = 0 THEN a ELSE GCD(b, a % b)

\* num / den in lowest terms.
Reduce(num, den) ==
    LET g == GCD(num, den)
    IN  IF g = 0 THEN <<num, den>> ELSE <<num \div g, den \div g>>

\* a / b = c / d
RatEq(a, b, c, d) == Reduce(a, b) = Reduce(c, d)

\* (num / den) * 100
Percent(num, den) == [num |-> num, den |-> den]

\* startOfDay(now) and the time elapsed since.
startOfDay(t) == (t \div DayMs) * DayMs
ElapsedToday(t) == calculateDuration(startOfDay(t), t)

\* activity.duration || 0
DurationOrZero(a) == IF "duration" \in DOMAIN a THEN a.duration ELSE 0

RECURSIVE SumOrZero(_)
SumOrZero(list) ==
    IF list = <<>> THEN 0
    ELSE DurationOrZero(Head(list)) + SumOrZero(Tail(list))

calculateTotalTrackedTime(list) == SumOrZero(list)

Max0(x) == IF x > 0 THEN x ELSE 0

calculateUnaccountedTime(totalTrackedTime, isCurrentDay) ==
    LET totalDayMilliseconds == 24 * 60 * 60 * 1000
    IN  IF isCurrentDay
        THEN Max0(ElapsedToday(now) - totalTrackedTime)
        ELSE Max0(totalDayMilliseconds - totalTrackedTime)

\* The keys of a Map filled in list order: each buttonId at its first entry.
FirstEntries(list) ==
    {i \in 1..Len(list) : \A j \in 1..(i - 1) : list[j].buttonId # list[i].buttonId}

\* The k-th key, by the place of its first entry.
KeyPlace(list, k) ==
    CHOOSE i \in FirstEntries(list) :
        Cardinality({j \in FirstEntries(list) : j <= i}) = k

groupActivitiesByButton(list) ==
    [k \in 1..Cardinality(FirstEntries(list)) |->
        LET buttonId == list[KeyPlace(list, k)].buttonId
        IN  [buttonId   |-> buttonId,
             activities |-> SelectSeq(list, LAMBDA a : a.buttonId = buttonId)]]

UnaccountedColor == "#E0E0E0"

getEmptyDaySegments ==
    <<[buttonId |-> "unaccounted",
       value    |-> Percent(24 * 60 * 60 * 1000, 24 * 60 * 60 * 1000),
       duration |-> 24 * 60 * 60 * 1000,
       color    |-> UnaccountedColor,
       label    |-> "No activities tracked"]>>

\* segments.sort((a, b) => b.duration - a.duration): the place of entry i
\* in the stable sort, largest duration first.
SortPlace(segs, i) ==
    1 + Cardinality({j \in 1..Len(segs) :
            \/ segs[j].duration > segs[i].duration
            \/ segs[j].duration = segs[i].duration /\ j < i})

SortByDuration(segs) ==
    [k \in 1..Len(segs) |->
        segs[CHOOSE i \in 1..Len(segs) : SortPlace(segs, i) = k]]

calculateSegments(list, isCurrentDay) ==
    IF Len(list) = 0 THEN getEmptyDaySegments
    ELSE
    LET grouped == groupActivitiesByButton(list)
        totalMinutesInDay == 24 * 60 * 60 * 1000
        Segment(g) ==
            LET totalDuration == SumOrZero(g.activities)
            IN  [buttonId |-> g.buttonId,
                 value    |-> Percent(totalDuration, totalMinutesInDay),
                 duration |-> totalDuration,
                 color    |-> g.activities[1].color,
                 label    |-> g.buttonId]
        all == [k \in 1..Len(grouped) |-> Segment(grouped[k])]
        tracked == SelectSeq(all, LAMBDA s : s.duration > 0)
        totalTracked == calculateTotalTrackedTime(list)
        unaccountedTime == calculateUnaccountedTime(totalTracked, isCurrentDay)
        withRest ==
            IF unaccountedTime > 0
            THEN Append(tracked,
                    [buttonId |-> "unaccounted",
                     value    |-> Percent(unaccountedTime, totalMinutesInDay),
                     duration |-> unaccountedTime,
                     color    |-> UnaccountedColor,
                     label    |-> "Unaccounted"])
            ELSE tracked
    IN  SortByDuration(withRest)


\* new Date().toISOString().split('T')[0]: the day of an instant as
\* 'yyyy-MM-dd'.
IsoDate(t) == DayOf(t)

\* a.date === today.  A date key is formatDateKey's string: 'yyyy-MM-dd
\* HH:mm' in DEV_MODE, which no 'yyyy-MM-dd' string equals.
DateIsDay(date, day) == IF DEV_MODE THEN FALSE ELSE date = day

\* activities.filter(a => a.date === today)
TodayActivities(list) ==
    SelectSeq(list, LAMBDA a : DateIsDay(a.date, IsoDate(now)))

RECURSIVE SumAmounts(_)
SumAmounts(list) ==
    IF list = <<>> THEN 0 ELSE Head(list).amount + SumAmounts(Tail(list))

\* Math.floor(ms / 1000)
FloorSeconds(ms) == ms \div 1000

FigmaColors == [sleeping |-> "#9E9E9E", studying |-> "#FF5722",
                cycling |-> "#00BCD4", eating |-> "#CDDC39"]

\* figmaColors[buttonId] || button?.color || '#888'
FigmaColor(buttonId) ==
    IF buttonId \in DOMAIN FigmaColors THEN FigmaColors[buttonId]
    ELSE IF FindButton(buttons, buttonId) # Null
         THEN FindButton(buttons, buttonId).color
         ELSE "#888"

\* The segments FunctionalFigmaChart computes (startAngle and endAngle, the
\* running sums of the percentages, are left out).
FigmaSegments ==
    LET totalSecondsToday == FloorSeconds(ElapsedToday(now))
        todayActivities == TodayActivities(activities)
        completed == [i \in 1..Len(todayActivities) |->
                        [buttonId |-> todayActivities[i].buttonId,
                         amount   |-> todayActivities[i].duration]]
        added == IF currentActivity # Null
                 THEN Append(completed,
                        [buttonId |-> currentActivity.buttonId,
                         amount   |-> FloorSeconds(now - currentActivity.startTime)])
                 ELSE completed
        timeByButton ==
            [k \in 1..Cardinality(FirstEntries(added)) |->
                LET buttonId == added[KeyPlace(added, k)].buttonId
                IN  [buttonId |-> buttonId,
                     duration |-> SumAmounts(SelectSeq(added,
                                      LAMBDA e : e.buttonId = buttonId))]]
        totalTrackedSeconds ==
            SumAmounts([k \in 1..Len(timeByButton) |->
                          [amount |-> timeByButton[k].duration]])
        chartSegments ==
            [k \in 1..Len(timeByButton) |->
                [buttonId   |-> timeByButton[k].buttonId,
                 color      |-> FigmaColor(timeByButton[k].buttonId),
                 percentage |-> Percent(timeByButton[k].duration, totalSecondsToday)]]
    IN  IF totalSecondsToday = 0 THEN <<>>
        ELSE IF totalSecondsToday - totalTrackedSeconds > 0
        THEN Append(chartSegments,
                [buttonId   |-> "untracked",
                 color      |-> "#E5E5E5",
                 percentage |-> Percent(totalSecondsToday - totalTrackedSeconds,
                                        totalSecondsToday)])
        ELSE chartSegments

\* date.getHours() * 60 + date.getMinutes()
getMinutesSinceMidnight(t) == ElapsedToday(t) \div MinuteMs

\* (minutesSinceMidnight / (24 * 60)) * 360, in degrees num / den.
getCurrentTimeAngle ==
    [num |-> getMinutesSinceMidnight(now) * 360, den |-> 24 * 60]

\* ClockChart's currentTimeAngle: (totalSeconds / 60) * 360 with
\* totalSeconds = seconds + milliseconds / 1000 in DEV_MODE, and
\* (secondsSinceMidnight / secondsInDay) * 360 otherwise.
ClockTimeAngle ==
    IF DEV_MODE
    THEN [num |-> (now % MinuteMs) * 360, den |-> 60 * 1000]
    ELSE [num |-> ElapsedToday(now), den |-> (24 * 60 * 60 * 1000) \div 360]

(***************************************************************************)
(* The charts computed over the history of a day: the app was launched at  *)
(* or after the start of the day, up to MaxChartEntries intervals were     *)
(* tracked back to back and closed (stopCurrentActivity splits each at the *)
(* period boundaries), and an interval may be open.                        *)
(***************************************************************************)
MaxChartEntries == 2

ChartDayStart == DayMs
ChartGaps     == {0, MinuteMs}
ChartButtons  == {"studying", BlankId}
ChartSpans    == {90000, 2 * MinuteMs, 4 * MinuteMs}
ChartOpenSpans == {0, 90000, 2 * MinuteMs}

ChartColor(buttonId) == IF buttonId = BlankId THEN BlankColor ELSE FigmaColors[buttonId]

\* The intervals tracked: sequences of <<buttonId, span>>.
ChartIntervals ==
    UNION {[1..n -> ChartButtons \X ChartSpans] : n \in 0..MaxChartEntries}

\* The history after the intervals were closed one after the other.
RECURSIVE ChartHistory(_, _, _)
ChartHistory(intervals, start, id) ==
    IF intervals = <<>> THEN <<>>
    ELSE LET buttonId == Head(intervals)[1]
             endTime  == start + Head(intervals)[2]
             open     == OpenActivity(id, buttonId, start, ChartColor(buttonId))
         IN  splitActivityAtMidnight(Completed(open, endTime))
                 \o ChartHistory(Tail(intervals), endTime, id + 1)

RECURSIVE ChartSpan(_)
ChartSpan(intervals) ==
    IF intervals = <<>> THEN 0 ELSE Head(intervals)[2] + ChartSpan(Tail(intervals))

InitChart ==
    /\ \E gap \in ChartGaps, intervals \in ChartIntervals,
          open \in {Null} \cup (ChartButtons \X ChartOpenSpans) :
          LET first == ChartDayStart + gap
              last  == first + ChartSpan(intervals)
          IN  /\ activities = ChartHistory(intervals, first, 1)
              /\ currentActivity =
                    IF open = Null THEN Null
                    ELSE OpenActivity(Len(intervals) + 1, open[1], last,
                                      ChartColor(open[1]))
              /\ now = IF open = Null THEN last ELSE last + open[2]
              /\ nextId = Len(intervals) + 2
    /\ buttons = FirstLaunchButtons
    /\ settings = DefaultSettings
    /\ isLoading = FALSE
    /\ error = Null
    /\ timerState = Null
    /\ stCurrent = Null
    /\ stActivities = <<>>
    /\ stButtons = <<>>
    /\ stSettings = Null
    /\ stVersion = 0
    /\ tasks = [t \in Tasks |-> IdleTask]
    /\ opsLeft = 0
    /\ ticksLeft = 1
    /\ failsLeft = 0
    /\ restartsLeft = 0
    /\ splitIn = Null
    /\ splitOut = <<>>
    /\ ServiceIdle

\* chartService.calculateSegments(activities, isCurrentDay) on the history.
CallCalculateSegments(isCurrentDay) ==
    /\ segments' = [list |-> "activities", isCurrentDay |-> isCurrentDay, at |-> now,
                    result |-> calculateSegments(activities, isCurrentDay)]
    /\ UNCHANGED <<now, storeVars, storageVars, tasks, nextId, boundVars, splitVars,
                   retryVars, timerVars, figmaSegments, timeAngle, clockAngle>>

\* HomeScreen renders PieChart with todayActivities and isCurrentDay = true.
RenderPieChart ==
    /\ segments' = [list |-> "todayActivities", isCurrentDay |-> TRUE, at |-> now,
                    result |-> calculateSegments(TodayActivities(activities), TRUE)]
    /\ UNCHANGED <<now, storeVars, storageVars, tasks, nextId, boundVars, splitVars,
                   retryVars, timerVars, figmaSegments, timeAngle, clockAngle>>

RenderFigmaChart ==
    /\ figmaSegments' = [at |-> now, result |-> FigmaSegments]
    /\ UNCHANGED <<now, storeVars, storageVars, tasks, nextId, boundVars, splitVars,
                   retryVars, timerVars, segments, timeAngle, clockAngle>>

\* PieChart's updateTimeIndicator.
CallGetCurrentTimeAngle ==
    /\ timeAngle' = [at |-> now, angle |-> getCurrentTimeAngle]
    /\ UNCHANGED <<now, storeVars, storageVars, tasks, nextId, boundVars, splitVars,
                   retryVars, timerVars, segments, figmaSegments, clockAngle>>

RenderClockChart ==
    /\ clockAngle' = [at |-> now, angle |-> ClockTimeAngle]
    /\ UNCHANGED <<now, storeVars, storageVars, tasks, nextId, boundVars, splitVars,
                   retryVars, timerVars, segments, figmaSegments, timeAngle>>

NextChart ==
    \/ \E isCurrentDay \in BOOLEAN : CallCalculateSegments(isCurrentDay)
    \/ RenderPieChart
    \/ RenderFigmaChart
    \/ CallGetCurrentTimeAngle
    \/ RenderClockChart
    \/ \E d \in ForwardSteps : Tick(d)

SpecChart == InitChart /\ [][NextChart]_vars


(* Chart properties *)
RECURSIVE SumValueNum(_)
SumValueNum(segs) ==
    IF segs = <<>> THEN 0 ELSE Head(segs).value.num + SumValueNum(Tail(segs))

\* The values of the segments, percentages over one denominator, sum to 100.
SumsTo100(segs) ==
    /\ Len(segs) > 0
    /\ \A i \in 1..Len(segs) : segs[i].value.den = segs[1].value.den
    /\ SumValueNum(segs) = segs[1].value.den

\* C24: for the current period and for closed periods alike, the values of
\* the segments calculateSegments returns, the unaccounted one included, sum
\* to 100.
C24_PercentagesSumTo100 ==
    segments # Null => SumsTo100(segments.result)

\* For a closed day they do.
ClosedDaySumsTo100 ==
    (segments # Null /\ ~segments.isCurrentDay) => SumsTo100(segments.result)

\* For the current day they sum to the elapsed share of 24 hours.
CurrentDaySumsToElapsedShare ==
    (segments # Null /\ segments.isCurrentDay /\ segments.list = "activities"
        /\ activities # <<>>
        /\ calculateTotalTrackedTime(activities) <= ElapsedToday(segments.at))
        => SumValueNum(segments.result) = ElapsedToday(segments.at)

\* C25: for the current period the percentage of each segment is its total
\* duration divided by the time elapsed since the start of the period.
C25_PercentOfElapsedTime ==
    (segments # Null /\ segments.isCurrentDay /\ segments.list = "activities"
        /\ activities # <<>> /\ ElapsedToday(segments.at) > 0)
        => \A i \in 1..Len(segments.result) :
              LET s == segments.result[i]
              IN  RatEq(s.value.num, s.value.den, s.duration, ElapsedToday(segments.at))

\* calculateSegments divides by the 24 hours of a day.
PercentOfFullDay ==
    (segments # Null /\ segments.list = "activities" /\ activities # <<>>)
        => \A i \in 1..Len(segments.result) :
              LET s == segments.result[i]
              IN  RatEq(s.value.num, s.value.den, s.duration, DayMs)

\* The duration of the segment of a buttonId, 0 without one.
GroupDuration(segs, buttonId) ==
    SumOrZero(SelectSeq(segs, LAMBDA s : s.buttonId = buttonId))

\* The time the history and the open interval give to a buttonId at now.
TimeOf(buttonId) ==
    SumOrZero(SelectSeq(activities, LAMBDA a : a.buttonId = buttonId))
        + (IF currentActivity # Null /\ currentActivity.buttonId = buttonId
           THEN now - currentActivity.startTime ELSE 0)

\* C26: the aggregation counts the elapsed time of the open interval under
\* its buttonId, in the group of the history entries of that buttonId.
C26_OpenIntervalCountedInItsGroup ==
    (segments # Null /\ segments.isCurrentDay /\ segments.list = "activities"
        /\ segments.at = now /\ currentActivity # Null)
        => GroupDuration(segments.result, currentActivity.buttonId)
               = TimeOf(currentActivity.buttonId)

\* The history of the day reaches the PieChart that HomeScreen renders.
HomeScreenPassesHistory ==
    (segments # Null /\ segments.list = "todayActivities" /\ activities # <<>>)
        => segments.result # getEmptyDaySegments

\* The seconds FunctionalFigmaChart gives to a buttonId.
FigmaSeconds(buttonId) ==
    SumAmounts([i \in 1..Len(figmaSegments.result) |->
        [amount |-> IF figmaSegments.result[i].buttonId = buttonId
                    THEN figmaSegments.result[i].percentage.num ELSE 0]])

\* FunctionalFigmaChart counts the open interval together with the history of
\* its buttonId, to the second.
FigmaCountsHistoryWithOpen ==
    (figmaSegments # Null /\ figmaSegments.at = now /\ currentActivity # Null
        /\ figmaSegments.result # <<>>)
        => FigmaSeconds(currentActivity.buttonId) + Len(activities) + 1
               >= FloorSeconds(TimeOf(currentActivity.buttonId))

\* FunctionalFigmaChart counts the open interval alone.
FigmaCountsOpenOnly ==
    (figmaSegments # Null /\ figmaSegments.at = now /\ currentActivity # Null
        /\ figmaSegments.result # <<>>)
        => FigmaSeconds(currentActivity.buttonId)
               = FloorSeconds(now - currentActivity.startTime)

\* An angle is the elapsed share of the accounting period of getDayBounds,
\* times 360.
ElapsedShareOfPeriod(a) ==
    RatEq(a.angle.num, a.angle.den,
          360 * (a.at - getDayBounds(a.at).start), PeriodMs)

\* C27: the current-time angle is the time elapsed in the accounting period
\* divided by the length of the period, times 360: 0 at the first instant of
\* every period, never decreasing within one, in [0, 360).
C27_AngleIsElapsedShareOfPeriod ==
    timeAngle # Null => ElapsedShareOfPeriod(timeAngle)

\* getCurrentTimeAngle is 0 at the first instant of a period.
AngleZeroAtPeriodStart ==
    (timeAngle # Null /\ timeAngle.at = getDayBounds(timeAngle.at).start)
        => timeAngle.angle.num = 0

\* ClockChart's angle is the elapsed share of the period.
ClockAngleIsElapsedShareOfPeriod ==
    clockAngle # Null => ElapsedShareOfPeriod(clockAngle)

\* getCurrentTimeAngle is the share of the calendar day, in whole minutes.
AngleIsMinuteOfDay ==
    timeAngle # Null =>
        RatEq(timeAngle.angle.num, timeAngle.angle.den,
              (ElapsedToday(timeAngle.at) \div MinuteMs) * MinuteMs, DayMs \div 360)


(* The loop of splitActivityAtMidnight *)
\* The number of iterations of the while loop: every iteration pushes one
\* piece, and one more piece is pushed after the loop.
LoopIterations(activity) ==
    IF ~crossesMidnight(activity.startTime, activity.endTime) THEN 0
    ELSE Len(SplitLoop(activity, activity.startTime,
                       getDayBounds(activity.startTime).end)) - 1

\* The number of periods an interval touches.
PeriodsTouched(activity) ==
    formatDateKey(activity.endTime) - formatDateKey(activity.startTime) + 1

\* C28: splitActivityAtMidnight terminates for every interval with
\* start <= end: each iteration moves the cursor to the first instant of the
\* next period, and the loop makes one iteration less than the number of
\* periods the interval touches.
C28_SplitLoopAdvancesAndTerminates ==
    SplitDone =>
        /\ LoopIterations(splitIn) = PeriodsTouched(splitIn) - 1
        /\ Len(splitOut) = LoopIterations(splitIn) + 1
        /\ \A i \in 2..Len(splitOut) :
              /\ splitOut[i].startTime = getDayBounds(splitOut[i].startTime).start
              /\ formatDateKey(splitOut[i].startTime)
                     = formatDateKey(splitOut[i - 1].startTime) + 1

\* The loop has run over an interval that touches four periods or more.
C28_Witness ==
    /\ SplitDone
    /\ PeriodsTouched(splitIn) >= 4
    /\ Len(splitOut) = PeriodsTouched(splitIn)


(***************************************************************************)
(* TimerService.  interval is the handle setInterval returned, or Null;    *)
(* scheduled holds the handles of the periodic timers that run.            *)
(***************************************************************************)
MaxTimerOps == 4

TimerCallbacks == {"display"}
AppStates == {"active", "background", "inactive"}

\* A clearInterval that leaves the periodic timer running.
clearIntervalLeaks(handle) == scheduled

\* clearInterval(handle): the timers that still run.
clearInterval(handle) == scheduled \ {handle}

\* A Date, and the handle of a periodic timer.
DateOf(t) == [time |-> t]
TimerHandles == {[handle |-> h] : h \in 1..2}

\* The handle setInterval returns: one that no running timer has.
NewHandle(running) ==
    [handle |-> CHOOSE h \in 1..(Cardinality(running) + 1) : [handle |-> h] \notin running]

\* The calls made last, the newest at the end.
Called(name) ==
    IF Len(lastCalls) < 2 THEN Append(lastCalls, name)
    ELSE <<lastCalls[2], name>>

\* stop(): the service and the running timers after it.
TimerStopped(ts) ==
    [service |-> [ts EXCEPT !.interval = Null, !.startTime = Null, !.lastUpdate = 0],
     running |-> IF ts.interval # Null THEN clearInterval(ts.interval) ELSE scheduled]

\* notifyCallbacks(): the service after it.  The callbacks are told the
\* duration unless the last update is less than 900 ms old.
notifyCallbacks(ts) ==
    IF ts.startTime = Null THEN ts
    ELSE IF now - ts.lastUpdate < 900 THEN ts
    ELSE [ts EXCEPT !.lastUpdate = now]

\* start(startTime)
TimerStarted(ts, startTime) ==
    LET stopped  == TimerStopped(ts)
        set      == [stopped.service EXCEPT !.startTime = startTime, !.lastUpdate = now]
        notified == notifyCallbacks(set)
        handle   == NewHandle(stopped.running)
    IN  [service |-> [notified EXCEPT !.interval = handle],
         running |-> stopped.running \cup {handle}]

isRunning == timerService.interval # Null /\ timerService.startTime # Null

InitTimer ==
    /\ now = StartInstant
    /\ InitStore
    /\ stCurrent = Null
    /\ stActivities = <<>>
    /\ stButtons = <<>>
    /\ stSettings = Null
    /\ stVersion = 0
    /\ tasks = [t \in Tasks |-> IdleTask]
    /\ nextId = 1
    /\ opsLeft = MaxTimerOps
    /\ ticksLeft = MaxTicks
    /\ failsLeft = 0
    /\ restartsLeft = 0
    /\ splitIn = Null
    /\ splitOut = <<>>
    /\ ServiceIdle

\* A call of the service: r is the service and the running timers after it.
TimerCall(name, r) ==
    /\ opsLeft > 0
    /\ opsLeft' = opsLeft - 1
    /\ timerService' = r.service
    /\ scheduled' = r.running
    /\ lastCalls' = Called(name)
    /\ UNCHANGED <<now, storeVars, storageVars, tasks, nextId, ticksLeft, failsLeft,
                   restartsLeft, splitVars, retryVars, chartVars>>

\* start() starts at new Date(); start(startTime) at the instant given.
TimerStart(startTime) == TimerCall("start", TimerStarted(timerService, startTime))

TimerStop == TimerCall("stop", TimerStopped(timerService))

TimerResume(startTime) == TimerCall("resume", TimerStarted(timerService, startTime))

TimerCleanup ==
    LET stopped == TimerStopped(timerService)
    IN  TimerCall("cleanup",
                  [stopped EXCEPT !.service = [stopped.service EXCEPT !.callbacks = {}]])

TimerSubscribe(callback) ==
    TimerCall("subscribe",
              [service |-> [timerService EXCEPT !.callbacks = @ \cup {callback}],
               running |-> scheduled])

TimerHandleAppStateChange(nextState) ==
    TimerCall(nextState,
        IF nextState = "active" /\ timerService.startTime # Null
                                /\ timerService.interval = Null
        THEN TimerStarted(timerService, timerService.startTime)
        ELSE IF nextState = "background" /\ timerService.interval # Null
        THEN [service |-> [timerService EXCEPT !.interval = Null],
              running |-> clearInterval(timerService.interval)]
        ELSE [service |-> timerService, running |-> scheduled])

\* The callback of a periodic timer that runs.
IntervalFires(handle) ==
    /\ handle \in scheduled
    /\ timerService' = notifyCallbacks(timerService)
    /\ UNCHANGED <<now, storeVars, storageVars, tasks, nextId, boundVars, splitVars,
                   retryVars, scheduled, lastCalls, chartVars>>

TimerStartTimes == {DateOf(StartInstant - MinuteMs)}

NextTimer ==
    \/ TimerStart(DateOf(now))
    \/ \E st \in TimerStartTimes : TimerStart(st)
    \/ TimerStop
    \/ \E st \in TimerStartTimes : TimerResume(st)
    \/ TimerCleanup
    \/ \E c \in TimerCallbacks : TimerSubscribe(c)
    \/ \E s \in AppStates : TimerHandleAppStateChange(s)
    \/ \E h \in TimerHandles : IntervalFires(h)
    \/ \E d \in ForwardSteps : Tick(d)

SpecTimer == InitTimer /\ [][NextTimer]_vars

\* At most one periodic timer runs; it is the one the service holds; and
\* isRunning() is true exactly when one runs and startTime is set.
TimerConsistent ==
    /\ Cardinality(scheduled) <= 1
    /\ scheduled = IF timerService.interval # Null THEN {timerService.interval} ELSE {}
    /\ isRunning <=> (Cardinality(scheduled) = 1 /\ timerService.startTime # Null)

\* The call made last.
LastCall == IF lastCalls = <<>> THEN "" ELSE lastCalls[Len(lastCalls)]

\* C30: after any sequence of start, resume, stop, cleanup and
\* handleAppStateChange calls at most one periodic timer is scheduled,
\* isRunning() is true exactly when one is scheduled and startTime is set, and
\* a background call followed by an active call leaves startTime unchanged
\* with the periodic timer scheduled again.
C30_TimerServiceInvariant ==
    [][/\ TimerConsistent
       /\ TimerConsistent'
       /\ (TimerHandleAppStateChange("background") /\ isRunning)
              => /\ timerService'.startTime = timerService.startTime
                 /\ scheduled' = {}
       /\ (TimerHandleAppStateChange("active") /\ LastCall = "background")
              => /\ timerService'.startTime = timerService.startTime
                 /\ timerService.startTime # Null => Cardinality(scheduled') = 1
                 /\ timerService.startTime # Null => isRunning']_vars

\* A running timer was put in the background and the app is active again:
\* the timer runs, from the start time it had.
C30_Witness ==
    /\ Len(lastCalls) = 2
    /\ lastCalls[1] = "background"
    /\ lastCalls[2] = "active"
    /\ isRunning
    /\ timerService.startTime.time < timerService.lastUpdate

====
